---------------------------- MODULE Spec2Model ----------------------------
(***************************************************************************)
(* XImgDock: the preview / diagnostics engine of the extension.            *)
(*                                                                         *)
(*   Parser              validateXHTML and its rules (webpack.config.js)   *)
(*   DiagnosticManager   debounced validation, published diagnostics       *)
(*   PreviewManager      debounced rendering, reveal from the webview      *)
(*   PreviewProvider     reveal with a transient source highlight          *)
(*   activate            the document event listeners of extension.ts      *)
(*                                                                         *)
(* Strings are TLA+ strings; positions are 0-based as in JavaScript.       *)
(* Japanese message texts are written in romaji, the ASCII parts of a      *)
(* message (tag names, "alt", "DOCTYPE") are kept as they are.             *)
(***************************************************************************)
EXTENDS Integers, Sequences, FiniteSets, TLC

(***************************************************************************)
(* String helpers (the JavaScript string methods the code uses).           *)
(***************************************************************************)

\* s[i], i 0-based; "" when out of range
CharAt(s, i) == IF i >= 0 /\ i < Len(s) THEN SubSeq(s, i + 1, i + 1) ELSE ""

Min(a, b) == IF a < b THEN a ELSE b
Max(a, b) == IF a > b THEN a ELSE b

\* s.substring(i, j) for 0 <= i: j is clamped to the length
Substring(s, i, j) == SubSeq(s, i + 1, Min(j, Len(s)))

RECURSIVE IndexOfFrom(_, _, _)
\* s.indexOf(pat, i) for 0 <= i
IndexOfFrom(s, pat, i) ==
    IF i + Len(pat) > Len(s) THEN -1
    ELSE IF SubSeq(s, i + 1, i + Len(pat)) = pat THEN i
    ELSE IndexOfFrom(s, pat, i + 1)

IndexOf(s, pat) == IndexOfFrom(s, pat, 0)

Includes(s, pat) == IndexOf(s, pat) >= 0

StartsWith(s, pat) == Len(pat) <= Len(s) /\ SubSeq(s, 1, Len(pat)) = pat

IsWhiteSpace(c) == c \in {" ", "\t", "\n", "\r"}

RECURSIVE TrimStart(_)
TrimStart(s) ==
    IF s # "" /\ IsWhiteSpace(CharAt(s, 0)) THEN TrimStart(SubSeq(s, 2, Len(s))) ELSE s

RECURSIVE TrimEnd(_)
TrimEnd(s) ==
    IF s # "" /\ IsWhiteSpace(CharAt(s, Len(s) - 1)) THEN TrimEnd(SubSeq(s, 1, Len(s) - 1)) ELSE s

\* s.trim()
Trim(s) == TrimEnd(TrimStart(s))

UpperCase == "ABCDEFGHIJKLMNOPQRSTUVWXYZ"
LowerCase == "abcdefghijklmnopqrstuvwxyz"

LowerChar(c) ==
    LET k == IndexOf(UpperCase, c)
    IN  IF c # "" /\ k >= 0 THEN CharAt(LowerCase, k) ELSE c

RECURSIVE ToLowerCase(_)
\* s.toLowerCase()
ToLowerCase(s) ==
    IF s = "" THEN "" ELSE LowerChar(CharAt(s, 0)) \o ToLowerCase(SubSeq(s, 2, Len(s)))

RECURSIVE SplitFrom(_, _)
SplitFrom(s, acc) ==
    IF s = "" THEN <<acc>>
    ELSE IF CharAt(s, 0) = "\n" THEN <<acc>> \o SplitFrom(SubSeq(s, 2, Len(s)), "")
    ELSE SplitFrom(SubSeq(s, 2, Len(s)), acc \o CharAt(s, 0))

\* s.split('\n'): "" splits into <<"">>
Split(s) == SplitFrom(s, "")

RECURSIVE RunOfNot(_, _, _)
\* number of consecutive characters of s from position p that are not c
RunOfNot(s, p, c) ==
    IF p >= Len(s) \/ CharAt(s, p) = c THEN 0 ELSE 1 + RunOfNot(s, p + 1, c)

(***************************************************************************)
(* Parser (webpack.config.js 233-454).                                     *)
(*                                                                         *)
(* XMLValidator.validate and XMLParser.parse belong to the fast-xml-parser *)
(* library, which is not part of the repository: their outcome is an       *)
(* input of validateXHTML, the record `lib`:                               *)
(*   lib.validate  [kind |-> "throw"] when validate raises, otherwise what *)
(*                 it returns: [kind |-> "true"] for true, or              *)
(*                 [kind |-> "err", err |-> e] where e has the fields the  *)
(*                 library filled in among line, col and msg               *)
(*   lib.parse     "ok" or "throw"                                         *)
(***************************************************************************)

\* the Japanese words the code searches messages for
Zokusei == "ZOKUSEI"
JikoShuryoTagu == "JIKOSHURYOTAGU"
KoubunError == "KOUBUN-ERROR"

MsgXmlSyntax == "XML" \o KoubunError
MsgSelfClosing(element) ==
    "<" \o element \o ">youso-wa-XHTML-dewa-" \o JikoShuryoTagu
        \o "-de-aru-hitsuyou-ga-arimasu: <" \o element \o ".../>"
MsgImgAlt == "<img>youso-niwa-alt" \o Zokusei \o "-ga-hitsuyou-desu"
MsgAreaAlt == "<area>youso-niwa-alt" \o Zokusei \o "-ga-hitsuyou-desu"
MsgDoctype == "XHTML-file-niwa-XHTML DOCTYPE-sengen-wo-shiyou-suru-koto-wo-suishou-shimasu"
MsgParseError(error) == "parse-error: " \o error

voidElements ==
    <<"area", "base", "br", "col", "embed", "hr", "img", "input", "link", "meta",
      "source", "track", "wbr">>

\* parseValidationError(validationResult)
parseValidationError(validationResult) ==
    LET error == validationResult.err
        has(f) == f \in DOMAIN error
    IN  [line     |-> IF has("line") THEN error.line - 1 ELSE 0,
         column   |-> IF has("col") THEN error.col ELSE 0,
         message  |-> IF has("msg") /\ error.msg # "" THEN error.msg ELSE MsgXmlSyntax,
         severity |-> "error"]

\* One attempt of /<element([^>]*[^/])>/i at position i of line: the position
\* after the match, or -1.  [^>]* is greedy: it first takes the whole run of
\* non-'>' characters, and gives back at most one character.
VoidMatchEnd(line, element, i) ==
    LET p == i + 1 + Len(element)
        r == RunOfNot(line, p, ">")
    IN  IF CharAt(line, i) # "<" THEN -1
        ELSE IF ToLowerCase(Substring(line, i, p)) # "<" \o element THEN -1
        ELSE IF CharAt(line, p + r) = ">" /\ CharAt(line, p + r + 1) = ">" THEN p + r + 2
        ELSE IF r >= 1 /\ CharAt(line, p + r - 1) # "/" /\ CharAt(line, p + r) = ">"
             THEN p + r + 1
        ELSE -1

RECURSIVE VoidExecLoop(_, _, _, _)
\* while ((match = regex.exec(line)) !== null) errors.push(...), from lastIndex i
VoidExecLoop(line, lineNumber, element, i) ==
    IF i >= Len(line) THEN <<>>
    ELSE LET e == VoidMatchEnd(line, element, i)
         IN  IF e < 0 THEN VoidExecLoop(line, lineNumber, element, i + 1)
             ELSE <<[line     |-> lineNumber,
                     column   |-> i,
                     message  |-> MsgSelfClosing(element),
                     severity |-> "warning"]>>
                  \o VoidExecLoop(line, lineNumber, element, e)

RECURSIVE VoidElementsFrom(_, _, _)
VoidElementsFrom(line, lineNumber, k) ==
    IF k > Len(voidElements) THEN <<>>
    ELSE VoidExecLoop(line, lineNumber, voidElements[k], 0)
         \o VoidElementsFrom(line, lineNumber, k + 1)

\* checkSelfClosingTags(line, lineNumber)
checkSelfClosingTags(line, lineNumber) == VoidElementsFrom(line, lineNumber, 1)

RECURSIVE TagMatches(_, _, _)
\* line.match(/<name[^>]*>/gi): the matched substrings from position i on
TagMatches(line, name, i) ==
    IF i >= Len(line) THEN <<>>
    ELSE LET p == i + 1 + Len(name)
             r == RunOfNot(line, p, ">")
         IN  IF ToLowerCase(Substring(line, i, p)) = "<" \o name /\ CharAt(line, p + r) = ">"
             THEN <<Substring(line, i, p + r + 1)>> \o TagMatches(line, name, p + r + 1)
             ELSE TagMatches(line, name, i + 1)

RECURSIVE AltErrors(_, _, _, _)
\* tags.forEach(tag => { if (!tag.includes('alt=')) errors.push(...) })
AltErrors(line, lineNumber, tags, message) ==
    IF tags = <<>> THEN <<>>
    ELSE (IF Includes(Head(tags), "alt=") THEN <<>>
          ELSE <<[line     |-> lineNumber,
                  column   |-> IndexOf(line, Head(tags)),
                  message  |-> message,
                  severity |-> "warning"]>>)
         \o AltErrors(line, lineNumber, Tail(tags), message)

\* checkRequiredAttributes(line, lineNumber)
checkRequiredAttributes(line, lineNumber) ==
    AltErrors(line, lineNumber, TagMatches(line, "img", 0), MsgImgAlt)
    \o AltErrors(line, lineNumber, TagMatches(line, "area", 0), MsgAreaAlt)

\* checkDoctype comparing the declaration as it is written
checkDoctype_AsWritten(line, lineNumber) ==
    IF StartsWith(Trim(line), "<!DOCTYPE html") /\ ~Includes(line, "XHTML")
    THEN <<[line |-> lineNumber, column |-> 0, message |-> MsgDoctype, severity |-> "warning"]>>
    ELSE <<>>

\* checkDoctype(line, lineNumber)
checkDoctype(line, lineNumber) ==
    IF StartsWith(ToLowerCase(Trim(line)), "<!doctype html") /\ ~Includes(line, "XHTML")
    THEN <<[line |-> lineNumber, column |-> 0, message |-> MsgDoctype, severity |-> "warning"]>>
    ELSE <<>>

RECURSIVE SpecificFrom(_, _)
\* the loop body of validateXHTMLSpecific for lines i.. (i 0-based)
SpecificFrom(lines, i) ==
    IF i >= Len(lines) THEN <<>>
    ELSE LET line == lines[i + 1]
         IN  checkSelfClosingTags(line, i)
             \o checkRequiredAttributes(line, i)
             \o (IF i = 0 \/ (i = 1 /\ StartsWith(lines[1], "<?xml"))
                 THEN checkDoctype(line, i) ELSE <<>>)
             \o SpecificFrom(lines, i + 1)

\* validateXHTMLSpecific(content)
validateXHTMLSpecific(content) == SpecificFrom(Split(content), 0)

HasSeverityError(errors) == \E k \in 1..Len(errors) : errors[k].severity = "error"

\* a variant that takes findings without an error among them for valid
IsValidAfterSpecific_NoneIsError(xhtmlErrors) == ~HasSeverityError(xhtmlErrors)

\* result.isValid = xhtmlErrors.some(error => error.severity === 'error')
IsValidAfterSpecific(xhtmlErrors) == HasSeverityError(xhtmlErrors)

\* the catch block of validateXHTML: one finding is pushed onto what
\* result.errors holds when the exception is raised
CaughtResult(errors, error) ==
    [isValid |-> FALSE,
     errors  |-> errors \o <<[line |-> 0, column |-> 0,
                              message |-> MsgParseError(error), severity |-> "error"]>>,
     data    |-> FALSE,
     caught  |-> TRUE]

\* a variant that runs the XHTML rules also after the XML check has failed
validateXHTML_Ungated(content, lib) ==
    IF lib.validate.kind = "throw" THEN CaughtResult(<<>>, "validate")
    ELSE IF lib.validate.kind # "true"
    THEN [isValid |-> FALSE,
          errors |-> <<parseValidationError(lib.validate)>> \o validateXHTMLSpecific(content),
          data |-> FALSE, caught |-> FALSE]
    ELSE [isValid |-> TRUE, errors |-> validateXHTMLSpecific(content), data |-> FALSE,
          caught |-> FALSE]

\* validateXHTML(content), lib being what the fast-xml-parser calls do.
\* data: whether result.data was set; caught: whether the catch block ran
validateXHTML(content, lib) ==
    IF lib.validate.kind = "throw" THEN CaughtResult(<<>>, "validate")
    ELSE IF lib.validate.kind # "true"
    THEN [isValid |-> FALSE, errors |-> <<parseValidationError(lib.validate)>>,
          data |-> FALSE, caught |-> FALSE]
    ELSE LET xhtmlErrors == validateXHTMLSpecific(content)
             isValid     == IF Len(xhtmlErrors) > 0 THEN IsValidAfterSpecific(xhtmlErrors)
                            ELSE TRUE
         IN  IF isValid /\ lib.parse = "throw" THEN CaughtResult(xhtmlErrors, "parse")
             ELSE [isValid |-> isValid, errors |-> xhtmlErrors, data |-> isValid,
                   caught |-> FALSE]

(***************************************************************************)
(* DiagnosticManager: conversion of findings to diagnostics                *)
(* (webpack.config.js 101-214).  A document is given by its text.          *)
(***************************************************************************)

lineCount(text) == Len(Split(text))

\* document.lineAt(line).text
lineAt(text, line) == Split(text)[line + 1]

WordChars == "ABCDEFGHIJKLMNOPQRSTUVWXYZabcdefghijklmnopqrstuvwxyz0123456789_"

\* /\w/.test(c)
IsWordChar(c) == c # "" /\ Includes(WordChars, c)

RECURSIVE RunOfWord(_, _)
\* number of consecutive \w characters of s from position p
RunOfWord(s, p) == IF IsWordChar(CharAt(s, p)) THEN 1 + RunOfWord(s, p + 1) ELSE 0

RECURSIVE WordsFrom(_, _)
\* lineText.match(/\b\w+\b/g): the maximal runs of \w characters
WordsFrom(s, p) ==
    IF p >= Len(s) THEN <<>>
    ELSE LET r == RunOfWord(s, p)
         IN  IF r = 0 THEN WordsFrom(s, p + 1)
             ELSE <<Substring(s, p, p + r)>> \o WordsFrom(s, p + r)

RECURSIVE FirstWordRange(_, _, _, _)
\* for (const word of wordMatch) { wordIndex = lineText.indexOf(word, startCharacter) ... }
FirstWordRange(lineText, words, line, startCharacter) ==
    IF words = <<>> THEN [found |-> FALSE]
    ELSE LET wordIndex == IndexOfFrom(lineText, Head(words), startCharacter)
         IN  IF wordIndex >= 0
             THEN [found |-> TRUE,
                   range |-> [line |-> line, start |-> wordIndex,
                              end |-> wordIndex + Len(Head(words))]]
             ELSE FirstWordRange(lineText, Tail(words), line, startCharacter)

\* getErrorRange(document, line, startCharacter, message)
getErrorRange(text, line, startCharacter, message) ==
    LET lineText == lineAt(text, line)
        tagStart == IndexOfFrom(lineText, "<", startCharacter)
        tagEnd   == IF tagStart >= 0 THEN IndexOfFrom(lineText, ">", tagStart) ELSE -1
        word     == FirstWordRange(lineText, WordsFrom(lineText, 0), line, startCharacter)
        run      == RunOfWord(lineText, startCharacter)
        endCharacter == IF run = 0 THEN Min(startCharacter + 1, Len(lineText))
                        ELSE startCharacter + run
    IN  IF Includes(message, "<") /\ Includes(message, ">") /\ tagStart >= 0 /\ tagEnd >= 0
        THEN [line |-> line, start |-> tagStart, end |-> tagEnd + 1]
        ELSE IF Includes(message, Zokusei) /\ word.found THEN word.range
        ELSE [line |-> line, start |-> startCharacter, end |-> endCharacter]

\* getErrorCode(message)
getErrorCode(message) ==
    IF Includes(message, MsgXmlSyntax) THEN "XML001"
    ELSE IF Includes(message, JikoShuryoTagu) THEN "XHTML001"
    ELSE IF Includes(message, "alt" \o Zokusei) THEN "XHTML002"
    ELSE IF Includes(message, "DOCTYPE") THEN "XHTML003"
    ELSE "GENERAL001"

\* getRelatedInformation(error): the locations of the related notes
getRelatedInformation(error) ==
    (IF Includes(error.message, "alt" \o Zokusei)
     THEN <<"https://www.w3.org/WAI/tutorials/images/">> ELSE <<>>)
    \o (IF Includes(error.message, JikoShuryoTagu)
        THEN <<"https://www.w3.org/TR/xhtml1/">> ELSE <<>>)

\* createDiagnostic with the reported column bounded from below only
createDiagnostic_ColumnAsReported(error, text) ==
    LET line == Max(0, Min(error.line, lineCount(text) - 1))
        startCharacter == Max(0, error.column)
    IN  [range    |-> getErrorRange(text, line, startCharacter, error.message),
         message  |-> error.message,
         severity |-> IF error.severity = "error" THEN "Error" ELSE "Warning",
         source   |-> "XImgDock",
         code     |-> getErrorCode(error.message),
         relatedInformation |-> getRelatedInformation(error)]

\* createDiagnostic(error, document)
createDiagnostic(error, text) ==
    LET line == Max(0, Min(error.line, lineCount(text) - 1))
        lineText == lineAt(text, line)
        startCharacter == Max(0, Min(error.column, Len(lineText)))
    IN  [range    |-> getErrorRange(text, line, startCharacter, error.message),
         message  |-> error.message,
         severity |-> IF error.severity = "error" THEN "Error" ELSE "Warning",
         source   |-> "XImgDock",
         code     |-> getErrorCode(error.message),
         relatedInformation |-> getRelatedInformation(error)]

\* convertToDiagnostics(parseResult, document)
convertToDiagnostics(parseResult, text) ==
    [k \in 1..Len(parseResult.errors) |-> createDiagnostic(parseResult.errors[k], text)]

(***************************************************************************)
(* PreviewManager: the rendered content (unnamed/part_005 169-252).        *)
(***************************************************************************)

RECURSIVE RunOfWhite(_, _)
\* number of consecutive whitespace characters of s from position p
RunOfWhite(s, p) == IF IsWhiteSpace(CharAt(s, p)) THEN 1 + RunOfWhite(s, p + 1) ELSE 0

RECURSIVE WhiteBefore(_, _, _)
\* number of consecutive whitespace characters of s that end right before
\* position p, none of them at a position below lo
WhiteBefore(s, p, lo) ==
    IF p - 1 >= lo /\ IsWhiteSpace(CharAt(s, p - 1)) THEN 1 + WhiteBefore(s, p - 1, lo) ELSE 0

\* One attempt of /<(\w+)(\s[^>]*?)?(\s*\/?>)/ at position i of line:
\* [found, insertAt (where group 3, the ending, starts), end (after the match)].
\* \w+ takes the whole run of word characters; with a whitespace after the
\* name group 2 takes part and is lazy, so the ending is the longest \s*\/?>
\* that ends at the first '>' and starts after that whitespace.
TagMatchAt(line, i) ==
    LET w == RunOfWord(line, i + 1)
        q == i + 1 + w
        g == q + 1 + RunOfNot(line, q + 1, ">")
        base == IF g - 1 >= q + 1 /\ CharAt(line, g - 1) = "/" THEN g - 1 ELSE g
    IN  IF CharAt(line, i) # "<" \/ w = 0 THEN [found |-> FALSE]
        ELSE IF IsWhiteSpace(CharAt(line, q))
        THEN IF CharAt(line, g) = ">"
             THEN [found |-> TRUE, insertAt |-> base - WhiteBefore(line, base, q + 1),
                   end |-> g + 1]
             ELSE [found |-> FALSE]
        ELSE IF CharAt(line, q) = ">" THEN [found |-> TRUE, insertAt |-> q, end |-> q + 1]
        ELSE IF CharAt(line, q) = "/" /\ CharAt(line, q + 1) = ">"
        THEN [found |-> TRUE, insertAt |-> q, end |-> q + 2]
        ELSE [found |-> FALSE]

\* the attribute processXHTMLContent adds to the tags of line `index`
DataLineAttr(index) == " data-line=\"" \o ToString(index) \o "\""

RECURSIVE AddDataLine(_, _, _)
\* the while loop over tagRegex.exec(line), from lastIndex i: the line with
\* the attribute added to every matched tag that has no 'data-line' in it
AddDataLine(line, index, i) ==
    IF i >= Len(line) THEN Substring(line, i, Len(line))
    ELSE LET m == TagMatchAt(line, i)
         IN  IF ~m.found THEN CharAt(line, i) \o AddDataLine(line, index, i + 1)
             ELSE IF Includes(Substring(line, i, m.end), "data-line")
             THEN Substring(line, i, m.end) \o AddDataLine(line, index, m.end)
             ELSE Substring(line, i, m.insertAt) \o DataLineAttr(index)
                  \o Substring(line, m.insertAt, m.end) \o AddDataLine(line, index, m.end)

\* the callback of lines.map in processXHTMLContent
ProcessLine(line, index) ==
    LET trimmedLine == Trim(line)
    IN  IF trimmedLine = "" \/ StartsWith(trimmedLine, "<!--")
           \/ StartsWith(trimmedLine, "<?xml") \/ StartsWith(trimmedLine, "<!DOCTYPE")
        THEN line
        ELSE IF Includes(trimmedLine, "<") /\ Includes(trimmedLine, ">")
        THEN AddDataLine(line, index, 0)
        ELSE line

RECURSIVE JoinLines(_)
\* lines.join('\n')
JoinLines(lines) ==
    IF Len(lines) = 0 THEN ""
    ELSE IF Len(lines) = 1 THEN lines[1]
    ELSE lines[1] \o "\n" \o JoinLines(Tail(lines))

IsQuote(c) == c \in {"\"", "'"}

RECURSIVE RunOfNotQuote(_, _)
RunOfNotQuote(s, p) ==
    IF p >= Len(s) \/ IsQuote(CharAt(s, p)) THEN 0 ELSE 1 + RunOfNotQuote(s, p + 1)

RECURSIVE ImgSrcAt(_, _, _)
\* /<img([^>]*?)src=["']([^"']+?)["']([^>]*?)>/ at position i of content, the
\* lazy first group ending at position a or later:
\* [found, srcStart, srcEnd (the reference), end (after the match)]
ImgSrcAt(content, i, a) ==
    IF a >= Len(content) \/ (a > i + 4 /\ CharAt(content, a - 1) = ">") THEN [found |-> FALSE]
    ELSE LET n == RunOfNotQuote(content, a + 5)
             c == a + 5 + n
             g == c + 1 + RunOfNot(content, c + 1, ">")
         IN  IF Substring(content, a, a + 4) = "src=" /\ IsQuote(CharAt(content, a + 4))
                /\ n >= 1 /\ IsQuote(CharAt(content, c)) /\ CharAt(content, g) = ">"
             THEN [found |-> TRUE, srcStart |-> a + 5, srcEnd |-> c, end |-> g + 1]
             ELSE ImgSrcAt(content, i, a + 1)

\* path.isAbsolute(src)
IsAbsolutePath(src) == StartsWith(src, "/")

\* panel.webview.asWebviewUri(vscode.Uri.file(path.resolve(documentDir, src)))
WebviewUri(documentDir, src) ==
    "https://file+.vscode-resource.vscode-cdn.net" \o documentDir \o "/" \o src

RECURSIVE FixImagePathsFrom(_, _, _)
\* content.replace(/<img...>/g, callback) from position i on
FixImagePathsFrom(content, documentDir, i) ==
    IF i >= Len(content) THEN ""
    ELSE LET m == IF Substring(content, i, i + 4) = "<img"
                  THEN ImgSrcAt(content, i, i + 4) ELSE [found |-> FALSE]
         IN  IF ~m.found THEN CharAt(content, i) \o FixImagePathsFrom(content, documentDir, i + 1)
             ELSE LET src == Substring(content, m.srcStart, m.srcEnd)
                  IN  (IF StartsWith(src, "http") \/ StartsWith(src, "data:")
                          \/ IsAbsolutePath(src)
                       THEN Substring(content, i, m.end)
                       ELSE Substring(content, i, m.srcStart - 1) \o "\""
                            \o WebviewUri(documentDir, src) \o "\""
                            \o Substring(content, m.srcEnd + 1, m.end))
                      \o FixImagePathsFrom(content, documentDir, m.end)

\* fixImagePaths(content)
fixImagePaths(content, documentDir) == FixImagePathsFrom(content, documentDir, 0)

\* processXHTMLContent(content)
processXHTMLContent(content, documentDir) ==
    LET lines == Split(content)
    IN  fixImagePaths(JoinLines([k \in 1..Len(lines) |-> ProcessLine(lines[k], k - 1)]),
                      documentDir)

(***************************************************************************)
(* The host (VS Code) and the state of the extension.                      *)
(***************************************************************************)

VARIABLES
    docText,            \* host: the text of each open document (getText())
    activeTextEditor,   \* host: vscode.window.activeTextEditor (a document, or NoEditor)
    closedDocuments,    \* host: the documents the user has closed
    webview,            \* host: the preview webview: "none", "loading", "ready"
    timers,             \* host: the timers scheduled by setTimeout and not yet fired
    previewManager,     \* extension.ts 8: the PreviewManager's fields
    diagnosticManager,  \* extension.ts 10: the DiagnosticManager's fields
    posted,             \* the messages the last step posted to the webview
    burst,              \* history: the current burst of change/save events (render)
    vburst,             \* history: per document, the current burst of updateDiagnostics calls
    selection,          \* host: per editor, the cursor (editor.selection.start)
    revealed,           \* host: per editor, the line last scrolled to (-1: none)
    selectionEvents,    \* host: the selection-change events not yet delivered
    delivered,          \* history: the message or event the last step delivered
    previewProvider,    \* the PreviewProvider's fields and its panel's html
    decorations,        \* host: per editor, the lines that carry _highlightDecoration
    parser,             \* a call of Parser.validateXHTML: its input and its result
    thumbnailManager,   \* the ThumbnailManager's fields, its cache directory and the
                        \* image files it reads
    webviewScript,      \* the script of the preview webview: the messages it has yet
                        \* to handle, its variables and what its page shows
    imageDockProvider,  \* the ImageDockProvider's fields and its loadImages runs
    commands            \* host: the commands registered, and how activate got on

vars == <<docText, activeTextEditor, closedDocuments, webview, timers,
          previewManager, diagnosticManager, posted, burst, vburst,
          selection, revealed, selectionEvents, delivered,
          previewProvider, decorations, parser, thumbnailManager, webviewScript,
          imageDockProvider, commands>>

Documents == {"a.xhtml", "b.html", "c.xml"}

\* the documents the user works with while the preview is in use
Workspace == {"a.xhtml", "b.html"}

NoEditor == "undefined"
NoDocument == "undefined"

\* document.languageId
languageId(document) ==
    IF document = "a.xhtml" THEN "xhtml"
    ELSE IF document = "b.html" THEN "html" ELSE "xml"

\* the texts the user gives a document
TextsOf(document) ==
    IF document = "a.xhtml" THEN {"<p>a</p>\n<p>b</p>", "<img src=\"a.png\">\n"}
    ELSE IF document = "b.html" THEN {"<br>\n<hr>"}
    ELSE {"<a/>", "<br>"}

InitialText(document) ==
    IF document = "a.xhtml" THEN "<p>a</p>\n<p>b</p>"
    ELSE IF document = "b.html" THEN "<br>\n<hr>" ELSE "<a/>"

\* path.dirname(document.uri.fsPath)
documentDir(document) == "/work"

\* texts to render: a blank line between elements, a line of text only, two
\* elements in one line, a whitespace-only line, a comment, an image, no text,
\* two elements three lines apart
RenderTexts ==
    {"<p>a</p>\n\n<p>b</p>", "a\n<b>c</b>", "<p><b>x</b></p>", "<br/>\n  \n<hr/>",
     "<!-- c -->\n<p>a</p>", "<img src=\"a.png\"/>", "", "<a>\n\n\n<b>"}

\* the texts a document is rendered with
RenderedTextsOf(document) ==
    TextsOf(document) \cup (IF document = "c.xml" THEN RenderTexts ELSE {})

\* the outcomes of the fast-xml-parser calls of one validation pass
LibOutcomes ==
    {[validate |-> [kind |-> "true"], parse |-> "ok"],
     [validate |-> [kind |-> "true"], parse |-> "throw"],
     [validate |-> [kind |-> "err",
                    err |-> [code |-> "InvalidTag", msg |-> "Unclosed tag 'img'.",
                             line |-> 1, col |-> 1]],
      parse |-> "ok"]}

\* What a render pass and a validation pass compute from a text, tabulated over
\* the texts the documents take so that each is computed once.
RenderPass ==
    [d \in Documents |->
        [content \in RenderedTextsOf(d) |-> processXHTMLContent(content, documentDir(d))]]

ValidationPass ==
    [content \in UNION {TextsOf(d) : d \in Documents} |->
        [lib \in LibOutcomes |->
            LET parseResult == validateXHTML(content, lib)
            IN  [parseResult |-> parseResult,
                 diagnostics |-> convertToDiagnostics(parseResult, content)]]]

\* extension.ts 14-16 and PreviewManager.isSupportedLanguage
isSupportedLanguage(id) == id \in {"html", "xhtml", "xml"}

(***************************************************************************)
(* Timers.  A timer is [kind, id] plus what its callback captured; ids are *)
(* unique among the timers of one kind, and a handle field holds the id of *)
(* a timer of its own kind (0: undefined).                                 *)
(***************************************************************************)

TimerIds(ts, kind) == {t.id : t \in {u \in ts : u.kind = kind}}

\* the id setTimeout returns: one that no scheduled timer of the kind has
\* and that no handle in `held` still names
NewTimerId(ts, kind, held) ==
    LET used == TimerIds(ts, kind) \cup held
    IN  CHOOSE n \in 1..(Cardinality(used) + 1) :
            n \notin used /\ \A m \in 1..(n - 1) : m \in used

\* clearTimeout(handle) for a handle of the given kind
clearTimeout(ts, kind, handle) == {t \in ts : ~(t.kind = kind /\ t.id = handle)}

(***************************************************************************)
(* A handler works on the record w of what it may change:                  *)
(*   w.pm      the PreviewManager          w.dm   the DiagnosticManager    *)
(*   w.timers  the scheduled timers        w.posted  the messages posted   *)
(*   w.selection, w.revealed, w.selectionEvents  the editors' cursors and  *)
(*             scroll positions and the selection-change events they emit  *)
(*   w.burst, w.vburst, w.delivered  the history variables                 *)
(*   w.script  the script of the preview webview                           *)
(* and reads w.text, the text of each document when the handler runs.      *)
(* The PreviewProvider and the Parser call take no part in these handlers. *)
(***************************************************************************)

NoDelivery == [kind |-> "none", document |-> NoDocument, line |-> -1, cause |-> "none"]

\* the history variables count up to MaxCount
MaxCount == 2
Capped(n) == Min(n, MaxCount)

\* burst: the document of the burst of change/save events on the previewed
\* document that is in progress or that the last step completed, the render
\* passes since its first event, whether its debounce has expired, and the
\* content of the last of these render passes
NoBurst == [document |-> NoDocument, renders |-> 0, done |-> FALSE, content |-> ""]

\* vburst[d]: the calls of the burst of updateDiagnostics(d) that is in progress
\* or that the last step completed, the text of d at the last of them, the
\* validation passes since the first, whether the debounce has expired, what
\* the pass read and what was published for d before it; and the diagnostics
\* of the latest pass for d
NoCalls == [calls |-> 0, text |-> "", passes |-> 0, done |-> FALSE,
            passText |-> "", before |-> <<>>, diagnostics |-> <<>>]

\* a burst that an earlier step completed is history no more
InProgress(b) == IF b.done THEN NoBurst ELSE b
CallsInProgress(vb) ==
    IF vb.done THEN [NoCalls EXCEPT !.diagnostics = vb.diagnostics] ELSE vb

World(text, ts) ==
    [pm |-> previewManager, dm |-> diagnosticManager, timers |-> ts, text |-> text,
     posted |-> <<>>, burst |-> InProgress(burst),
     vburst |-> [d \in Documents |-> CallsInProgress(vburst[d])],
     selection |-> selection, revealed |-> revealed, selectionEvents |-> selectionEvents,
     delivered |-> NoDelivery, script |-> webviewScript]

\* no script of the preview webview is followed
NoScript == [loaded |-> "none"]

\* webview.postMessage: the messages join those the script has yet to handle
Receives(script, messages) ==
    IF script.loaded = "none" THEN script ELSE [script EXCEPT !.inbox = @ \o messages]

Commit(w) ==
    /\ previewManager' = w.pm
    /\ diagnosticManager' = w.dm
    /\ timers' = w.timers
    /\ posted' = w.posted
    /\ burst' = w.burst
    /\ vburst' = w.vburst
    /\ selection' = w.selection
    /\ revealed' = w.revealed
    /\ selectionEvents' = w.selectionEvents
    /\ delivered' = w.delivered
    /\ webviewScript' = Receives(w.script, w.posted)
    /\ UNCHANGED <<previewProvider, decorations, parser, thumbnailManager,
                   imageDockProvider, commands>>

(***************************************************************************)
(* PreviewManager (unnamed/part_005).                                      *)
(***************************************************************************)

\* a variant whose clearTimeout cancels the validation timers too
updatePreview_ClearsAll(w, document) ==
    IF ~w.pm.panel \/ ~isSupportedLanguage(languageId(document)) THEN w
    ELSE LET id == NewTimerId({}, "preview", {})
         IN  [w EXCEPT !.pm.currentDocument = document,
                       !.pm.updateTimer = id,
                       !.timers = {[kind |-> "preview", id |-> id]}]

\* a variant that schedules the new timer and leaves the pending one
updatePreview_NoCancel(w, document) ==
    IF ~w.pm.panel \/ ~isSupportedLanguage(languageId(document)) THEN w
    ELSE LET id == NewTimerId(w.timers, "preview", {})
         IN  [w EXCEPT !.pm.currentDocument = document,
                       !.pm.updateTimer = id,
                       !.timers = @ \cup {[kind |-> "preview", id |-> id]}]

\* updatePreview(document), 80-98
updatePreview(w, document) ==
    IF ~w.pm.panel \/ ~isSupportedLanguage(languageId(document)) THEN w
    ELSE LET cleared == IF w.pm.updateTimer # 0
                        THEN clearTimeout(w.timers, "preview", w.pm.updateTimer)
                        ELSE w.timers
             id == NewTimerId(cleared, "preview", {})
         IN  [w EXCEPT !.pm.currentDocument = document,
                       !.pm.updateTimer = id,
                       !.timers = cleared \cup {[kind |-> "preview", id |-> id]}]

\* getDocumentBaseUri(), 169-177
getDocumentBaseUri(document) ==
    "https://file+.vscode-resource.vscode-cdn.net" \o documentDir(document)

\* doUpdatePreview(), 153-167
doUpdatePreview(w) ==
    IF ~w.pm.panel \/ w.pm.currentDocument = NoDocument THEN w
    ELSE LET content == w.text[w.pm.currentDocument]
             processedContent == RenderPass[w.pm.currentDocument][content]
         IN  [w EXCEPT !.posted = @ \o <<[command |-> "updateContent",
                                          content |-> processedContent,
                                          baseUri |-> getDocumentBaseUri(w.pm.currentDocument)]>>,
                       !.burst = IF @.document # NoDocument
                                 THEN [@ EXCEPT !.renders = Capped(@ + 1),
                                                !.content = processedContent]
                                 ELSE @]

\* the callback of the timer updatePreview schedules, 95-97
PreviewTimerCallback(w) ==
    LET r == doUpdatePreview(w)
    IN  [r EXCEPT !.burst = IF @.document # NoDocument THEN [@ EXCEPT !.done = TRUE] ELSE @]

\* the onDidChangeTextDocument listener of setupEditorEventHandlers, 46-50
PreviewManagerOnChange(w, document) ==
    IF w.pm.panel /\ document = w.pm.currentDocument THEN updatePreview(w, document) ELSE w

\* the most selection-change events that wait for delivery, and the most
\* timers of scrollToLine that are scheduled
MaxQueue == 1
MaxResetTimers == 2

\* scrollToLine(line), 254-279; editor is vscode.window.activeTextEditor.  The
\* host emits a selection-change event when the assignment moves the cursor.
\* new vscode.Range(line, 0, line, 0), 265, throws for a negative line: the
\* exception leaves the handler after the flag was set, 262, and before the
\* timer that resets it is scheduled, 275.  revealRange and the assignment to
\* editor.selection bring a line past the end to the last line of the document.
scrollToLine(w, line, editor) ==
    IF editor = NoEditor \/ editor # w.pm.currentDocument THEN w
    ELSE IF line < 0
    THEN [w EXCEPT !.pm.isUpdatingFromWebview = TRUE,
                   !.delivered.cause = "uncaught"]
    ELSE LET valid == Min(line, lineCount(w.text[editor]) - 1)
             position == [line |-> valid, character |-> 0]
             emitted == IF w.selection[editor] # position
                        THEN <<[document |-> editor, line |-> valid, cause |-> "reveal"]>>
                        ELSE <<>>
             id == NewTimerId(w.timers, "reset", {})
         IN  [w EXCEPT !.pm.isUpdatingFromWebview = TRUE,
                       !.revealed[editor] = valid,
                       !.selection[editor] = position,
                       !.selectionEvents = @ \o emitted,
                       !.timers = @ \cup {[kind |-> "reset", id |-> id]}]

\* the callback of the timer scrollToLine schedules, 275-278
ResetTimerCallback(w) == [w EXCEPT !.pm.isUpdatingFromWebview = FALSE]

\* the listener without the check of isUpdatingFromWebview
OnDidChangeTextEditorSelection_Unguarded(w, event) ==
    IF w.pm.panel /\ event.document = w.pm.currentDocument
    THEN LET line == event.line
             isDoubleClick == w.pm.lastClickTime = "recent" /\ line = w.pm.lastClickLine
         IN  [w EXCEPT !.posted = IF isDoubleClick
                                  THEN @ \o <<[command |-> "scrollToLine", line |-> line]>>
                                  ELSE @,
                       !.pm.lastClickTime = "recent",
                       !.pm.lastClickLine = line]
    ELSE w

\* the onDidChangeTextEditorSelection listener, 22-44.  lastClickTime is "recent"
\* while Date.now() - lastClickTime < 500 and "old" afterwards.
OnDidChangeTextEditorSelection(w, event) ==
    IF w.pm.isUpdatingFromWebview THEN w
    ELSE IF w.pm.panel /\ event.document = w.pm.currentDocument
    THEN LET line == event.line
             isDoubleClick == w.pm.lastClickTime = "recent" /\ line = w.pm.lastClickLine
         IN  [w EXCEPT !.posted = IF isDoubleClick
                                  THEN @ \o <<[command |-> "scrollToLine", line |-> line]>>
                                  ELSE @,
                       !.pm.lastClickTime = "recent",
                       !.pm.lastClickLine = line]
    ELSE w

\* the onDidReceiveMessage listener for 'scrollToLine' and 'elementClicked', 125-139
OnRevealMessage(w, line, editor) == scrollToLine(w, line, editor)

(***************************************************************************)
(* DiagnosticManager (webpack.config.js 58-232).                           *)
(***************************************************************************)

HeldDiagHandles(dm, document) == {dm.updateTimers[d] : d \in Documents \ {document}} \ {0}

\* history: a call of updateDiagnostics that passes the language check
NoteCall(vb, pending, text) ==
    IF vb.calls > 0 /\ pending
    THEN [vb EXCEPT !.calls = Capped(@ + 1), !.text = text]
    ELSE [NoCalls EXCEPT !.calls = 1, !.text = text, !.diagnostics = vb.diagnostics]

\* a variant that leaves the timer of the previous call scheduled
updateDiagnostics_NoCancel(w, document) ==
    IF languageId(document) # "xhtml" /\ languageId(document) # "xml" THEN w
    ELSE LET timer == NewTimerId(w.timers, "diag", HeldDiagHandles(w.dm, document))
             pending == \E t \in w.timers : t.kind = "diag" /\ t.document = document
         IN  [w EXCEPT !.dm.updateTimers[document] = timer,
                       !.timers = @ \cup
                                  {[kind |-> "diag", id |-> timer, document |-> document]},
                       !.vburst[document] = NoteCall(@, pending, w.text[document])]

\* a variant with one timer for all documents: a call cancels every pending one
updateDiagnostics_SharedTimer(w, document) ==
    IF languageId(document) # "xhtml" /\ languageId(document) # "xml" THEN w
    ELSE LET cleared == {t \in w.timers : t.kind # "diag"}
             timer == NewTimerId(cleared, "diag", {})
             pending == \E t \in w.timers : t.kind = "diag" /\ t.document = document
         IN  [w EXCEPT !.dm.updateTimers = [d \in Documents |-> IF d = document THEN timer ELSE 0],
                       !.timers = cleared \cup
                                  {[kind |-> "diag", id |-> timer, document |-> document]},
                       !.vburst[document] = NoteCall(@, pending, w.text[document])]

\* updateDiagnostics(document), 68-91
updateDiagnostics(w, document) ==
    IF languageId(document) # "xhtml" /\ languageId(document) # "xml" THEN w
    ELSE LET existingTimer == w.dm.updateTimers[document]
             cleared == IF existingTimer # 0 THEN clearTimeout(w.timers, "diag", existingTimer)
                        ELSE w.timers
             timer == NewTimerId(cleared, "diag", HeldDiagHandles(w.dm, document))
             pending == \E t \in w.timers : t.kind = "diag" /\ t.document = document
         IN  [w EXCEPT !.dm.updateTimers[document] = timer,
                       !.timers = cleared \cup
                                  {[kind |-> "diag", id |-> timer, document |-> document]},
                       !.vburst[document] = NoteCall(@, pending, w.text[document])]

\* a variant that adds the diagnostics to those the document has
CollectionSet_Append(collection, document, diagnostics) ==
    [collection EXCEPT ![document] = @ \o diagnostics]

\* diagnosticCollection.set(uri, diagnostics)
CollectionSet(collection, document, diagnostics) ==
    [collection EXCEPT ![document] = diagnostics]

\* doUpdateDiagnostics(document), 93-99
doUpdateDiagnostics(w, document, lib) ==
    LET content == w.text[document]
        parseResult == ValidationPass[content][lib].parseResult
        diagnostics == ValidationPass[content][lib].diagnostics
    IN  [w EXCEPT !.dm.diagnosticCollection = CollectionSet(@, document, diagnostics),
                  !.vburst[document] = [@ EXCEPT !.passes = Capped(@ + 1),
                                                 !.passText = content,
                                                 !.before = w.dm.diagnosticCollection[document],
                                                 !.diagnostics = diagnostics]]

\* the callback of the timer updateDiagnostics schedules, 85-88
DiagTimerCallback(w, document, lib) ==
    LET r == doUpdateDiagnostics(w, document, lib)
    IN  [r EXCEPT !.dm.updateTimers[document] = 0,
                  !.vburst[document] = [@ EXCEPT !.done = TRUE]]

(***************************************************************************)
(* activate (src/extension.ts 121-249): the listeners, in the order in     *)
(* which they were registered (the PreviewManager's own ones first).       *)
(***************************************************************************)

\* onDidChangeTextDocument, 224-230, and onDidSaveTextDocument, 231-236
OnDocumentEvent(w, document) ==
    IF isSupportedLanguage(languageId(document))
    THEN updateDiagnostics(updatePreview(w, document), document)
    ELSE w

\* onDidChangeActiveTextEditor, 237-242
OnDidChangeActiveTextEditor(w, editor) ==
    IF editor # NoEditor /\ isSupportedLanguage(languageId(editor))
    THEN updateDiagnostics(updatePreview(w, editor), editor)
    ELSE w

\* history: a change/save event on the previewed document, the panel open
NoteEvent(w, document) ==
    IF ~(w.pm.panel /\ document = w.pm.currentDocument) THEN w
    ELSE IF w.burst.document = document
            /\ \E t \in w.timers : t.kind = "preview"
    THEN w
    ELSE [w EXCEPT !.burst = [NoBurst EXCEPT !.document = document]]

(***************************************************************************)
(* Actions: what the user, the webview and the timers do.                  *)
(***************************************************************************)

OpenDocuments == Documents \ closedDocuments

\* the command ximgdock.showPreview: PreviewManager.showPreview(), 58-78, with
\* createWebviewPanel(), 100-151
ShowPreview ==
    /\ LET editor == activeTextEditor
           w == World(docText, timers)
       IN  IF editor = NoEditor \/ ~isSupportedLanguage(languageId(editor))
           THEN Commit(w) /\ webview' = webview
           ELSE /\ Commit(updatePreview([w EXCEPT !.pm.panel = TRUE,
                                                  !.pm.currentEditor = editor], editor))
                /\ webview' = IF previewManager.panel THEN webview ELSE "loading"
    /\ UNCHANGED <<docText, activeTextEditor, closedDocuments>>

\* the user closes the preview panel: the onDidDispose listener, 146-150
PanelDispose ==
    /\ previewManager.panel
    /\ Commit([World(docText, timers) EXCEPT !.pm.panel = FALSE,
                                             !.pm.currentEditor = NoEditor,
                                             !.burst = NoBurst])
    /\ webview' = "none"
    /\ UNCHANGED <<docText, activeTextEditor, closedDocuments>>

\* the webview script has loaded and posts 'ready': the message listener, 129-135
WebviewReady ==
    /\ webview = "loading"
    /\ webview' = "ready"
    /\ LET w == World(docText, timers)
       IN  Commit(IF w.pm.currentDocument # NoDocument THEN doUpdatePreview(w) ELSE w)
    /\ UNCHANGED <<docText, activeTextEditor, closedDocuments>>

\* the user edits a document: both onDidChangeTextDocument listeners run
DocChange(document, text) ==
    /\ document \in OpenDocuments
    /\ text \in TextsOf(document) \ {docText[document]}
    /\ docText' = [docText EXCEPT ![document] = text]
    /\ LET w == NoteEvent(World(docText', timers), document)
       IN  Commit(OnDocumentEvent(PreviewManagerOnChange(w, document), document))
    /\ UNCHANGED <<activeTextEditor, closedDocuments, webview>>

\* the user saves a document: the onDidSaveTextDocument listener runs
DocSave(document) ==
    /\ document \in OpenDocuments
    /\ LET w == NoteEvent(World(docText, timers), document)
       IN  Commit(OnDocumentEvent(w, document))
    /\ UNCHANGED <<docText, activeTextEditor, closedDocuments, webview>>

\* another editor, or none (a webview has the focus), becomes the active one;
\* showing a closed document opens it again
ActivateEditor(editor) ==
    /\ editor \in Documents \cup {NoEditor}
    /\ editor # activeTextEditor
    /\ activeTextEditor' = editor
    /\ closedDocuments' = closedDocuments \ {editor}
    /\ Commit(OnDidChangeActiveTextEditor(World(docText, timers), editor))
    /\ UNCHANGED <<docText, webview>>

\* the user closes a document; activate registers no listener for it
CloseDocument(document) ==
    /\ document \in OpenDocuments
    /\ closedDocuments' = closedDocuments \cup {document}
    /\ activeTextEditor' = IF activeTextEditor = document THEN NoEditor ELSE activeTextEditor
    /\ Commit(World(docText, timers))
    /\ UNCHANGED <<docText, webview>>

\* the render debounce expires
PreviewTimerFire ==
    \E t \in timers :
        /\ t.kind = "preview"
        /\ Commit(PreviewTimerCallback(World(docText, timers \ {t})))
        /\ UNCHANGED <<docText, activeTextEditor, closedDocuments, webview>>

\* the validation debounce of a document expires
DiagTimerFire ==
    \E t \in timers, lib \in LibOutcomes :
        /\ t.kind = "diag"
        /\ Commit(DiagTimerCallback(World(docText, timers \ {t}), t.document, lib))
        /\ UNCHANGED <<docText, activeTextEditor, closedDocuments, webview>>

\* the host before the user has done anything, and the extension after
\* activate: the fields as their declarations and constructors set them
InitHost ==
    /\ docText = [d \in Documents |-> InitialText(d)]
    /\ closedDocuments = {}
    /\ webview = "none"
    /\ timers = {}
    /\ selection = [d \in Documents |-> [line |-> 0, character |-> 0]]
    /\ revealed = [d \in Documents |-> -1]
    /\ selectionEvents = <<>>
    /\ decorations = [d \in Documents |-> {}]

\* no ThumbnailManager has been constructed
NoThumbnailManager == [constructed |-> FALSE]

\* the image dock and the commands are left out
NoImageDock ==
    /\ imageDockProvider = [constructed |-> FALSE]
    /\ commands = [registered |-> {}, activate |-> "left out"]

InitManagers ==
    /\ previewManager = [panel |-> FALSE, updateTimer |-> 0, currentDocument |-> NoDocument,
                         currentEditor |-> NoEditor, isUpdatingFromWebview |-> FALSE,
                         lastClickTime |-> "old", lastClickLine |-> -1]
    /\ diagnosticManager = [updateTimers |-> [d \in Documents |-> 0],
                            diagnosticCollection |-> [d \in Documents |-> <<>>]]
    /\ previewProvider = [_panel |-> FALSE, _sourceEditor |-> NoEditor,
                          _highlightTimeout |-> 0, html |-> ""]
    /\ posted = <<>>
    /\ burst = NoBurst
    /\ vburst = [d \in Documents |-> NoCalls]
    /\ delivered = NoDelivery

InitExtension ==
    /\ InitManagers
    /\ thumbnailManager = NoThumbnailManager
    /\ webviewScript = NoScript
    /\ NoImageDock

NoCall == [pc |-> "idle", content |-> "", lib |-> [validate |-> [kind |-> "true"], parse |-> "ok"],
           result |-> [isValid |-> TRUE, errors |-> <<>>, data |-> FALSE, caught |-> FALSE]]

Init ==
    /\ InitHost
    /\ InitExtension
    /\ activeTextEditor \in Workspace \cup {NoEditor}
    /\ parser = NoCall

Next ==
    \/ ShowPreview
    \/ PanelDispose
    \/ WebviewReady
    \/ \E d \in Workspace : \E text \in TextsOf(d) : DocChange(d, text)
    \/ \E d \in Workspace : DocSave(d)
    \/ \E e \in Workspace \cup {NoEditor} : ActivateEditor(e)
    \/ \E d \in Workspace : CloseDocument(d)
    \/ PreviewTimerFire
    \/ DiagTimerFire

Spec == Init /\ [][Next]_vars

DiagTimersOf(document) == {t \in timers : t.kind = "diag" /\ t.document = document}

\* C1: debounce collapsing (render).  With the panel open, a burst of change/save
\* events on the previewed document, each within the debounce delay of the one
\* before, gets no render pass before its debounce expires and exactly one when
\* it does, and that pass renders the text the document has at the last event.
C1_RenderCollapsing ==
    burst.document # NoDocument =>
        /\ ~burst.done => burst.renders = 0
        /\ burst.done =>
               /\ burst.renders = 1
               /\ burst.content = RenderPass[burst.document][docText[burst.document]]

\* C2: debounce collapsing (validation).  A burst of updateDiagnostics calls for
\* one xhtml/xml document, each within the debounce delay of the one before,
\* gets no validation pass while its debounce runs and exactly one when it
\* expires; that pass reads the text the document has at the last call and
\* publishes the one diagnostic set computed from it, and no pass is left to
\* come.  No pass runs outside such a burst.
C2_ValidationCollapsing ==
    \A d \in Documents :
        LET vb == vburst[d]
        IN  /\ vb.passes > 0 => (vb.calls > 0 /\ vb.done)
            /\ (vb.calls > 0 /\ ~vb.done) =>
                   (vb.passes = 0 /\ Cardinality(DiagTimersOf(d)) = 1)
            /\ vb.done =>
                   /\ vb.passes = 1
                   /\ vb.passText = vb.text
                   /\ vb.text = docText[d]
                   /\ \E lib \in LibOutcomes :
                          diagnosticManager.diagnosticCollection[d]
                              = ValidationPass[vb.text][lib].diagnostics
                   /\ DiagTimersOf(d) = {}

\* the debounce of a burst of two calls or more has expired, with its one pass
C2_Witness ==
    \E d \in Documents :
        /\ vburst[d].calls >= 2
        /\ vburst[d].done
        /\ vburst[d].passes = 1

\* C5: diagnostics cleared on close.  A closed document has no published
\* findings, whether or not a validation debounce was pending when it was closed.
C5_ClearedOnClose ==
    \A d \in closedDocuments : diagnosticManager.diagnosticCollection[d] = <<>>

\* C6: teardown cancels the render debounce.  Once the panel is disposed of, no
\* render-debounce timer is scheduled, so that none can fire.
C6_TeardownCancelsDebounce ==
    ~previewManager.panel => \A t \in timers : t.kind # "preview"

\* C9: publish replaces.  What is published for a document is exactly what the
\* latest validation pass for it found (nothing before the first pass): findings
\* of earlier passes do not remain, and a pass that finds nothing leaves nothing.
C9_PublishReplaces ==
    \A d \in Documents :
        diagnosticManager.diagnosticCollection[d] = vburst[d].diagnostics

\* a pass that found nothing has completed for a document that had findings
\* published, and nothing is published for it now
C9_Witness ==
    \E d \in Documents :
        /\ vburst[d].done
        /\ vburst[d].before # <<>>
        /\ vburst[d].diagnostics = <<>>
        /\ diagnosticManager.diagnosticCollection[d] = <<>>

PreviewTimers == {t \in timers : t.kind = "preview"}

\* a change, a save or an editor activation for document B
EventOn(B) ==
    \/ \E text \in TextsOf(B) : DocChange(B, text)
    \/ DocSave(B)
    \/ ActivateEditor(B)

\* C11: the sync session is touched only by its own document.  While the panel
\* is open and previews document A, a step that is a change, a save or an
\* editor activation for another supported document B leaves the previewed
\* document (the one the next render pass renders) and the pending render
\* debounce as they are.
C11_OwnDocumentOnly ==
    [][\A B \in Documents :
           (/\ previewManager.panel
            /\ previewManager.currentDocument \notin {NoDocument, B}
            /\ isSupportedLanguage(languageId(B))
            /\ EventOn(B))
           => /\ previewManager'.currentDocument = previewManager.currentDocument
              /\ PreviewTimers' = PreviewTimers]_vars

\* what the validation debounce owns: its timers, the DiagnosticManager's
\* fields (handles and published findings)
DiagPart(w) == <<{t \in w.timers : t.kind = "diag"}, w.dm>>

\* what the render debounce owns: its timer, the PreviewManager's fields and
\* what is posted to the webview
PreviewPart(w) == <<{t \in w.timers : t.kind = "preview"}, w.pm, w.posted>>

\* C13: the render debounce and the validation debounce are not coupled.  In
\* every state, updatePreview (which starts or restarts the render debounce
\* and cancels the pending one) and the expiry of the render debounce leave the
\* validation timers and the published findings as they are, and
\* updateDiagnostics and the expiry of a validation debounce leave the render
\* timer, the PreviewManager and the rendered content as they are.
C13_NotCoupled ==
    LET w == World(docText, timers)
    IN  /\ \A d \in Documents : DiagPart(updatePreview(w, d)) = DiagPart(w)
        /\ \A t \in PreviewTimers :
               DiagPart(PreviewTimerCallback([w EXCEPT !.timers = timers \ {t}])) = DiagPart(w)
        /\ \A d \in Documents : PreviewPart(updateDiagnostics(w, d)) = PreviewPart(w)
        /\ \A d \in Documents : \A t \in DiagTimersOf(d) : \A lib \in LibOutcomes :
               PreviewPart(DiagTimerCallback([w EXCEPT !.timers = timers \ {t}], d, lib))
                   = PreviewPart(w)

\* the panel is open, a render debounce and a validation debounce are both
\* pending, and findings are published
C13_Witness ==
    /\ previewManager.panel
    /\ PreviewTimers # {}
    /\ \E d \in Documents :
           DiagTimersOf(d) # {} /\ diagnosticManager.diagnosticCollection[d] # <<>>

\* a change or a save of document d
ChangeOrSave(d) ==
    \/ \E text \in TextsOf(d) : DocChange(d, text)
    \/ DocSave(d)

\* C14: every event drives both subsystems.  After a step that is a change or
\* a save of a document of a supported language (html, xhtml, xml) whose
\* preview is open, a render debounce is pending and a validation debounce for
\* that document is pending, so that a render pass and a validation pass follow.
C14_EveryEventDrivesBoth ==
    [][\A d \in Documents :
           (/\ previewManager.panel
            /\ previewManager.currentDocument = d
            /\ isSupportedLanguage(languageId(d))
            /\ ChangeOrSave(d))
           => /\ PreviewTimers' # {}
              /\ DiagTimersOf(d)' # {}]_vars

(***************************************************************************)
(* Reveal requests of the rendered view and the cursor of the source       *)
(* editor: the user opens the preview, moves the cursor and the focus, and *)
(* the webview asks for lines.  The document is b.html, which is not       *)
(* edited, so that no validation is scheduled.                             *)
(***************************************************************************)

InitReveal ==
    /\ InitHost
    /\ InitExtension
    /\ activeTextEditor = "b.html"
    /\ parser = NoCall

LinesOf(document) == 0..(lineCount(docText[document]) - 1)
MaxColumn == 1
Columns == 0..MaxColumn
MaxLine == 1
RevealLines == 0..MaxLine

\* the webview posts 'scrollToLine' or 'elementClicked' for a line of the
\* previewed document
WebviewReveal(line) ==
    /\ previewManager.panel
    /\ webview = "ready"
    /\ previewManager.currentDocument # NoDocument
    /\ line \in LinesOf(previewManager.currentDocument)
    /\ Len(selectionEvents) < MaxQueue
    /\ Cardinality({t \in timers : t.kind = "reset"}) < MaxResetTimers
    /\ LET w == [World(docText, timers) EXCEPT
                     !.delivered = [kind |-> "reveal", line |-> line, cause |-> "webview",
                                    document |-> previewManager.currentDocument]]
       IN  Commit(OnRevealMessage(w, line, activeTextEditor))
    /\ UNCHANGED <<docText, activeTextEditor, closedDocuments, webview>>

\* the user puts the cursor of the active editor somewhere else
UserSelect(line, character) ==
    /\ activeTextEditor # NoEditor
    /\ line \in LinesOf(activeTextEditor)
    /\ character \in Columns
    /\ selection[activeTextEditor] # [line |-> line, character |-> character]
    /\ Len(selectionEvents) < MaxQueue
    /\ Commit([World(docText, timers) EXCEPT
                   !.selection[activeTextEditor] = [line |-> line, character |-> character],
                   !.selectionEvents = Append(@, [document |-> activeTextEditor,
                                                  line |-> line, cause |-> "user"])])
    /\ UNCHANGED <<docText, activeTextEditor, closedDocuments, webview>>

\* the host delivers the oldest selection-change event to the listener
DeliverSelection ==
    /\ selectionEvents # <<>>
    /\ LET event == Head(selectionEvents)
           w == [World(docText, timers) EXCEPT
                     !.selectionEvents = Tail(@),
                     !.delivered = [kind |-> "selection", line |-> event.line,
                                    cause |-> event.cause, document |-> event.document]]
       IN  Commit(OnDidChangeTextEditorSelection(w, event))
    /\ UNCHANGED <<docText, activeTextEditor, closedDocuments, webview>>

\* the 100 ms of a timer of scrollToLine are over
ResetTimerFire ==
    \E t \in timers :
        /\ t.kind = "reset"
        /\ Commit(ResetTimerCallback(World(docText, timers \ {t})))
        /\ UNCHANGED <<docText, activeTextEditor, closedDocuments, webview>>

\* 500 ms have passed since the listener last took a selection change
ClickAges ==
    /\ previewManager.lastClickTime = "recent"
    /\ Commit([World(docText, timers) EXCEPT !.pm.lastClickTime = "old"])
    /\ UNCHANGED <<docText, activeTextEditor, closedDocuments, webview>>

NextReveal ==
    \/ ShowPreview
    \/ PanelDispose
    \/ WebviewReady
    \/ \E e \in {"b.html", NoEditor} : ActivateEditor(e)
    \/ PreviewTimerFire
    \/ \E line \in RevealLines : WebviewReveal(line)
    \/ \E line \in RevealLines, character \in Columns : UserSelect(line, character)
    \/ DeliverSelection
    \/ ResetTimerFire
    \/ ClickAges

SpecReveal == InitReveal /\ [][NextReveal]_vars

\* C3: echo suppression.  The delivery of the selection-change event that a
\* reveal request of the rendered view caused, however late it comes, posts no
\* scrollToLine message to the rendered view.
C3_EchoSuppression ==
    (delivered.kind = "selection" /\ delivered.cause = "reveal") =>
        \A k \in 1..Len(posted) : posted[k].command # "scrollToLine"

\* C10: reveal response.  When a reveal request of the rendered view for a line
\* of the previewed document has been handled, the editor of that document is
\* scrolled to the line and the echo-suppression flag is set, wherever the
\* focus was when the request arrived.
C10_RevealResponse ==
    delivered.kind = "reveal" =>
        /\ revealed[delivered.document] = delivered.line
        /\ previewManager.isUpdatingFromWebview

(***************************************************************************)
(* PreviewProvider (unnamed/part_008).  _getHtmlForWebview reads the file  *)
(* dist/webview/preview.html, which PreviewTemplate stands for.            *)
(***************************************************************************)

PreviewTemplateHead == "<html><body>"
PreviewTemplateTail == "</body></html>"

\* the callback of lines.map in _getHtmlForWebview, 181-187
WrapLine(line, index) ==
    IF Trim(line) = "" THEN "<br>"
    ELSE "<div data-line=\"" \o ToString(index + 1) \o "\">" \o line \o "</div>"

RECURSIVE JoinEmpty(_)
\* lines.join('')
JoinEmpty(lines) == IF Len(lines) = 0 THEN "" ELSE lines[1] \o JoinEmpty(Tail(lines))

RECURSIVE LocalImgSrcAt(_, _, _)
\* /(<img[^>]+src=")(?!https?:\/\/)([^"]+)"/ at position i of content, where
\* "<img" is, group 1 ending with the src=" that starts at position a or, [^>]+
\* being greedy, at the last position before a that gives a match:
\* [found, srcStart, srcEnd (the reference)]
LocalImgSrcAt(content, i, a) ==
    IF a < i + 5 THEN [found |-> FALSE]
    ELSE LET n == RunOfNot(content, a + 5, "\"")
             rest == Substring(content, a + 5, a + 13)
         IN  IF Substring(content, a, a + 5) = "src=\""
                /\ ~StartsWith(rest, "http://") /\ ~StartsWith(rest, "https://")
                /\ n >= 1 /\ CharAt(content, a + 5 + n) = "\""
             THEN [found |-> TRUE, srcStart |-> a + 5, srcEnd |-> a + 5 + n]
             ELSE LocalImgSrcAt(content, i, a - 1)

\* path.resolve(docDir, p2)
PathResolve(docDir, p2) == IF IsAbsolutePath(p2) THEN p2 ELSE docDir \o "/" \o p2

\* this._panel.webview.asWebviewUri(vscode.Uri.file(imagePath))
AsWebviewUri(imagePath) == "https://file+.vscode-resource.vscode-cdn.net" \o imagePath

RECURSIVE LocalImagesFrom(_, _, _)
\* content.replace(/(<img...)"/g, callback), 190-195, from position i on
LocalImagesFrom(content, docDir, i) ==
    IF i >= Len(content) THEN ""
    ELSE LET m == IF Substring(content, i, i + 4) = "<img"
                  THEN LocalImgSrcAt(content, i, i + 4 + RunOfNot(content, i + 4, ">"))
                  ELSE [found |-> FALSE]
         IN  IF ~m.found THEN CharAt(content, i) \o LocalImagesFrom(content, docDir, i + 1)
             ELSE Substring(content, i, m.srcStart)
                  \o AsWebviewUri(PathResolve(docDir, Substring(content, m.srcStart, m.srcEnd)))
                  \o "\"" \o LocalImagesFrom(content, docDir, m.srcEnd + 1)

\* _getHtmlForWebview(document), 161-199
getHtmlForWebview(text, docDir) ==
    LET lines == Split(text)
        content == JoinEmpty([k \in 1..Len(lines) |-> WrapLine(lines[k], k - 1)])
    IN  PreviewTemplateHead \o LocalImagesFrom(content, docDir, 0) \o PreviewTemplateTail

ProviderHtml ==
    [d \in Documents |->
        [text \in RenderedTextsOf(d) |-> getHtmlForWebview(text, documentDir(d))]]

\* update(document), 140-144
update(pp, document) ==
    IF pp._panel THEN [pp EXCEPT !.html = ProviderHtml[document][docText[document]]] ELSE pp

\* the PreviewManager, the DiagnosticManager and the editors' cursors take no
\* part in what the PreviewProvider does
ProviderOnly ==
    UNCHANGED <<docText, activeTextEditor, closedDocuments, webview,
                previewManager, diagnosticManager, burst, vburst,
                selection, selectionEvents, delivered, parser, thumbnailManager,
                webviewScript, imageDockProvider, commands>>

\* createOrShow(editor), 48-105
CreateOrShow(editor) ==
    /\ IF editor = NoEditor THEN UNCHANGED previewProvider
       ELSE previewProvider' = update([previewProvider EXCEPT !._sourceEditor = editor,
                                                              !._panel = TRUE], editor)
    /\ posted' = <<>>
    /\ UNCHANGED <<timers, decorations, revealed>>
    /\ ProviderOnly

\* the user closes the panel: the onDidDispose listener, 86-92
ProviderPanelDispose ==
    /\ previewProvider._panel
    /\ previewProvider' = [previewProvider EXCEPT !._panel = FALSE,
                                                  !._sourceEditor = NoEditor]
    /\ timers' = IF previewProvider._highlightTimeout # 0
                 THEN clearTimeout(timers, "highlight", previewProvider._highlightTimeout)
                 ELSE timers
    /\ posted' = <<>>
    /\ UNCHANGED <<decorations, revealed>>
    /\ ProviderOnly

\* the webview posts 'revealLine' for a line (1-based) of the document shown:
\* the onDidReceiveMessage listener, 95-101, and handleRevealLine(line), 112-134
HandleRevealLine(line) ==
    /\ previewProvider._panel
    /\ LET editor == previewProvider._sourceEditor
           cleared == IF previewProvider._highlightTimeout # 0
                      THEN clearTimeout(timers, "highlight",
                                        previewProvider._highlightTimeout)
                      ELSE timers
           id == NewTimerId(cleared, "highlight", {})
       IN  IF editor = NoEditor
           THEN UNCHANGED <<previewProvider, timers, decorations, revealed>>
           ELSE /\ line \in 1..lineCount(docText[editor])
                /\ revealed' = [revealed EXCEPT ![editor] = line - 1]
                /\ decorations' = [decorations EXCEPT ![editor] = {line - 1}]
                /\ timers' = cleared \cup {[kind |-> "highlight", id |-> id,
                                            editor |-> editor]}
                /\ previewProvider' = [previewProvider EXCEPT !._highlightTimeout = id]
    /\ posted' = <<>>
    /\ ProviderOnly

\* the second of the highlight is over: the callback of the timer, 131-133
HighlightTimerFire ==
    \E t \in timers :
        /\ t.kind = "highlight"
        /\ timers' = timers \ {t}
        /\ decorations' = [decorations EXCEPT ![t.editor] = {}]
        /\ posted' = <<>>
        /\ UNCHANGED <<previewProvider, revealed>>
        /\ ProviderOnly

\* update(document), called by the owner of the provider
ProviderUpdate(document) ==
    /\ previewProvider' = update(previewProvider, document)
    /\ posted' = <<>>
    /\ UNCHANGED <<timers, decorations, revealed>>
    /\ ProviderOnly

\* scrollToLine(line), 150-154
ProviderScrollToLine(line) ==
    /\ posted' = IF previewProvider._panel
                 THEN <<[command |-> "scrollTo", line |-> line]>> ELSE <<>>
    /\ UNCHANGED <<previewProvider, timers, decorations, revealed>>
    /\ ProviderOnly

\* the lines a caller or the webview names
MaxProviderLine == 2
ProviderLines == 1..MaxProviderLine

InitProvider ==
    /\ InitHost
    /\ InitExtension
    /\ activeTextEditor = NoEditor
    /\ parser = NoCall

NextProvider ==
    \/ \E editor \in Documents \cup {NoEditor} : CreateOrShow(editor)
    \/ ProviderPanelDispose
    \/ \E line \in ProviderLines : HandleRevealLine(line)
    \/ HighlightTimerFire
    \/ \E d \in Documents : ProviderUpdate(d)
    \/ \E line \in ProviderLines : ProviderScrollToLine(line)

SpecProvider == InitProvider /\ [][NextProvider]_vars

\* C7: teardown clears the transient highlight.  Once the preview panel is
\* closed no source editor carries the highlight decoration, also when the
\* panel is closed while a highlight is shown and its timer is pending.
C7_TeardownClearsHighlight ==
    ~previewProvider._panel => \A d \in Documents : decorations[d] = {}

(***************************************************************************)
(* Parser.validateXHTML as a function of its input: a call with any of the *)
(* texts below, the fast-xml-parser calls doing any of the things below.   *)
(***************************************************************************)

ParserTexts ==
    {"", "<p>a</p>", "<br>", "<br >", "<img src=\"a.png\">",
     "<img src=\"a.png\">\n<br >", "<!DOCTYPE html>\n<area >", "<img alt=\"\" />",
     "<hr ><br >", "<!DOCTYPE html>", "<?xml?>\n<!doctype html>", "<p/>\n<!DOCTYPE html>",
     " <!DocType HTML>", "<!DOCTYPE html XHTML>", "<?xml?>\n<p/>\n<!DOCTYPE html>"}

ValidateOutcomes ==
    {[kind |-> "true"], [kind |-> "throw"],
     [kind |-> "err", err |-> [code |-> "InvalidTag", msg |-> "Unclosed tag 'img'.",
                               line |-> 1, col |-> 1]],
     [kind |-> "err", err |-> [code |-> "InvalidXml", msg |-> ""]]}

ParserLibs == {[validate |-> v, parse |-> q] : v \in ValidateOutcomes, q \in {"ok", "throw"}}

InitParser ==
    /\ InitHost
    /\ InitExtension
    /\ activeTextEditor = NoEditor
    /\ \E content \in ParserTexts, lib \in ParserLibs :
           parser = [NoCall EXCEPT !.pc = "call", !.content = content, !.lib = lib]

\* the call returns
ValidateXHTML ==
    /\ parser.pc = "call"
    /\ parser' = [parser EXCEPT !.pc = "returned",
                                !.result = validateXHTML(parser.content, parser.lib)]
    /\ UNCHANGED <<docText, activeTextEditor, closedDocuments, webview, timers,
                   previewManager, diagnosticManager, posted, burst, vburst,
                   selection, revealed, selectionEvents, delivered,
                   previewProvider, decorations, thumbnailManager, webviewScript,
                   imageDockProvider, commands>>

NextParser == ValidateXHTML

SpecParser == InitParser /\ [][NextParser]_vars

\* C4: tier gating.  When the XML check (tier 1) rejects the text, the call
\* returns exactly one finding, it is an error, it is the finding made from the
\* check's result, and no finding of the XHTML rules (tier 2: self-closing tags,
\* alt attributes, DOCTYPE) is with it, whatever these rules find in the text.
C4_TierGating ==
    (parser.pc = "returned" /\ parser.lib.validate.kind = "err") =>
        /\ Len(parser.result.errors) = 1
        /\ parser.result.errors[1].severity = "error"
        /\ parser.result.errors = <<parseValidationError(parser.lib.validate)>>
        /\ \A k \in 1..Len(validateXHTMLSpecific(parser.content)) :
               validateXHTMLSpecific(parser.content)[k] # parser.result.errors[1]

\* a call has returned after a tier-1 rejection of a text in which the tier-2
\* rules find two violations or more
C4_Witness ==
    /\ parser.pc = "returned"
    /\ parser.lib.validate.kind = "err"
    /\ Len(validateXHTMLSpecific(parser.content)) >= 2

\* C8: the validator never throws.  Every call returns a ParseResult (a validity
\* flag and a list of findings), and when a step of it raised an exception the
\* result is invalid and holds exactly one finding, an error at line 0, column 0.
C8_NeverThrows ==
    parser.pc = "returned" =>
        /\ parser.result.isValid \in BOOLEAN
        /\ \A k \in 1..Len(parser.result.errors) :
               parser.result.errors[k].severity \in {"error", "warning"}
        /\ parser.result.caught =>
               /\ ~parser.result.isValid
               /\ Len(parser.result.errors) = 1
               /\ parser.result.errors[1].severity = "error"
               /\ parser.result.errors[1].line = 0
               /\ parser.result.errors[1].column = 0

\* a call has returned whose parse step raised an exception, and one whose
\* validate step did is covered by the same formula
C8_Witness ==
    /\ parser.pc = "returned"
    /\ parser.result.caught
    /\ parser.lib.validate.kind = "true"
    /\ parser.lib.parse = "throw"

(***************************************************************************)
(* Diagnostics of two documents: the user edits, saves and shows a.xhtml   *)
(* and c.xml, both validated; no preview is open.                          *)
(***************************************************************************)

Validated == {"a.xhtml", "c.xml"}

InitDiag ==
    /\ InitHost
    /\ InitExtension
    /\ activeTextEditor \in Validated
    /\ parser = NoCall

\* the validation debounce of document A expires
DiagTimerFireOf(A) ==
    \E t \in timers, lib \in LibOutcomes :
        /\ t.kind = "diag"
        /\ t.document = A
        /\ Commit(DiagTimerCallback(World(docText, timers \ {t}), t.document, lib))
        /\ UNCHANGED <<docText, activeTextEditor, closedDocuments, webview>>

NextDiag ==
    \/ \E d \in Validated : \E text \in TextsOf(d) : DocChange(d, text)
    \/ \E d \in Validated : DocSave(d)
    \/ \E e \in Validated \cup {NoEditor} : ActivateEditor(e)
    \/ \E d \in Validated : DiagTimerFireOf(d)

SpecDiag == InitDiag /\ [][NextDiag]_vars

\* C12: diagnostics are independent across documents.  A step in which
\* updateDiagnostics(A) is called (a change, a save or an activation of A), or
\* in which A's validation timer fires, leaves the scheduled timer, the entry
\* of updateTimers and the published findings of every other document B as
\* they are.
C12_IndependentAcrossDocuments ==
    [][\A A \in Documents :
           (EventOn(A) \/ DiagTimerFireOf(A)) =>
               \A B \in Documents \ {A} :
                   /\ DiagTimersOf(B)' = DiagTimersOf(B)
                   /\ diagnosticManager'.updateTimers[B] = diagnosticManager.updateTimers[B]
                   /\ diagnosticManager'.diagnosticCollection[B]
                          = diagnosticManager.diagnosticCollection[B]]_vars

\* A's timer has fired and published findings while B's timer is pending and
\* B has findings published
C12_Witness ==
    \E A \in Validated : \E B \in Validated \ {A} :
        /\ vburst[A].done
        /\ diagnosticManager.diagnosticCollection[A] # <<>>
        /\ DiagTimersOf(B) # {}
        /\ diagnosticManager.diagnosticCollection[B] # <<>>

(***************************************************************************)
(* Failures of the passes run at debounce expiry.  Parser.validateXHTML    *)
(* catches what the XML library throws; the other calls of a pass          *)
(* (document.getText, document.lineAt, the Range and Diagnostic            *)
(* constructors, diagnosticCollection.set; path.dirname, asWebviewUri,     *)
(* postMessage) are made outside any try block, so an exception of one of  *)
(* them leaves the timer callback: the statements after the call are not   *)
(* executed and the host reports an uncaught exception.                    *)
(***************************************************************************)

Uncaught(document, pass) ==
    [kind |-> "failure", document |-> document, line |-> -1, cause |-> "uncaught",
     pass |-> pass]

\* the callback of updateDiagnostics' timer, 85-88, when a call made by
\* doUpdateDiagnostics(document), 93-99, throws before diagnosticCollection.set
\* has stored the diagnostics: updateTimers.delete(documentUri), 87, is skipped
DiagTimerCallbackThrows(w, document) ==
    [w EXCEPT !.delivered = Uncaught(document, "validation")]

\* the callback of updatePreview's timer, 95-97, when a call made by
\* doUpdatePreview(), 153-167, throws after the check of 154 and before
\* postMessage has sent the content
PreviewTimerCallbackThrows(w) ==
    IF ~w.pm.panel \/ w.pm.currentDocument = NoDocument THEN w
    ELSE [w EXCEPT !.delivered = Uncaught(w.pm.currentDocument, "render")]

DiagTimerFails(document) ==
    \E t \in timers :
        /\ t.kind = "diag"
        /\ t.document = document
        /\ Commit(DiagTimerCallbackThrows(World(docText, timers \ {t}), document))
        /\ UNCHANGED <<docText, activeTextEditor, closedDocuments, webview>>

PreviewTimerFails ==
    \E t \in timers :
        /\ t.kind = "preview"
        /\ previewManager.panel
        /\ previewManager.currentDocument # NoDocument
        /\ Commit(PreviewTimerCallbackThrows(World(docText, timers \ {t})))
        /\ UNCHANGED <<docText, activeTextEditor, closedDocuments, webview>>

InitFailure ==
    /\ InitHost
    /\ InitExtension
    /\ activeTextEditor = "a.xhtml"
    /\ parser = NoCall

NextFailure ==
    \/ ShowPreview
    \/ WebviewReady
    \/ \E text \in TextsOf("a.xhtml") : DocChange("a.xhtml", text)
    \/ DocSave("a.xhtml")
    \/ PreviewTimerFire
    \/ DiagTimerFire
    \/ PreviewTimerFails
    \/ DiagTimerFails("a.xhtml")

SpecFailure == InitFailure /\ [][NextFailure]_vars

\* C15: coordinator failure handling.  When the pass run at the expiry of a
\* debounce fails, the failure is caught, no debounce handle stays recorded
\* (for the document, in updateTimers; for the preview, in updateTimer), and
\* what was last published (the document's findings; the content sent to the
\* webview) is as it was.
C15_FailureHandling ==
    [][/\ \A d \in Documents :
              DiagTimerFails(d) =>
                  /\ delivered'.cause = "caught"
                  /\ diagnosticManager'.updateTimers[d] = 0
                  /\ diagnosticManager'.diagnosticCollection
                         = diagnosticManager.diagnosticCollection
       /\ PreviewTimerFails =>
              /\ delivered'.cause = "caught"
              /\ previewManager'.updateTimer = 0
              /\ posted' = <<>>]_vars

(***************************************************************************)
(* Reveal requests for lines outside the document: the rendered content    *)
(* may be older than the text, and a data-line attribute of the source     *)
(* text is sent as it is (part_005 205, 426).                              *)
(***************************************************************************)

\* the lines next to the document's: the one before the first, the one after
\* the last
OutsideLines(document) == {-1, lineCount(docText[document])}

\* the line of the document nearest to a line
Nearest(document, line) == Max(0, Min(line, lineCount(docText[document]) - 1))

\* the webview posts 'scrollToLine' or 'elementClicked' for a line outside the
\* previewed document
WebviewRevealOutside(line) ==
    /\ previewManager.panel
    /\ webview = "ready"
    /\ previewManager.currentDocument # NoDocument
    /\ line \in OutsideLines(previewManager.currentDocument)
    /\ Len(selectionEvents) < MaxQueue
    /\ Cardinality({t \in timers : t.kind = "reset"}) < MaxResetTimers
    /\ LET w == [World(docText, timers) EXCEPT
                     !.delivered = [kind |-> "reveal", line |-> line, cause |-> "webview",
                                    document |-> previewManager.currentDocument]]
       IN  Commit(OnRevealMessage(w, line, activeTextEditor))
    /\ UNCHANGED <<docText, activeTextEditor, closedDocuments, webview>>

NextClamp ==
    \/ NextReveal
    \/ \E line \in {-1} \cup (1..(MaxLine + 1)) : WebviewRevealOutside(line)

SpecClamp == InitReveal /\ [][NextClamp]_vars

\* C16: an out-of-range reveal is clamped.  When a reveal request of the
\* rendered view for a line outside the previewed document has been handled
\* while the editor of that document is the active one, no error was raised
\* and the editor is scrolled to the nearest line of the document; and the
\* session goes on: whenever the echo-suppression flag is set, the timer that
\* resets it is scheduled.
C16_OutOfRangeClamped ==
    /\ (/\ delivered.kind = "reveal"
        /\ delivered.line \notin LinesOf(delivered.document)
        /\ activeTextEditor = delivered.document)
       => /\ delivered.cause # "uncaught"
          /\ revealed[delivered.document] = Nearest(delivered.document, delivered.line)
    /\ previewManager.isUpdatingFromWebview => \E t \in timers : t.kind = "reset"

(***************************************************************************)
(* The source line numbers the rendered content carries: what the webview  *)
(* script reads with parseInt(element.getAttribute('data-line')), part_005 *)
(* 419-426.                                                                *)
(***************************************************************************)

Digits == "0123456789"

IsDigit(c) == Includes(Digits, c)

RECURSIVE ParseDigits(_, _, _)
\* parseInt of the run of digits of s that starts at position i, acc being
\* the value of the digits read
ParseDigits(s, i, acc) ==
    IF i < Len(s) /\ IsDigit(CharAt(s, i))
    THEN ParseDigits(s, i + 1, acc * 10 + IndexOf(Digits, CharAt(s, i)))
    ELSE acc

RECURSIVE DataLinesFrom(_, _)
\* the numbers of the data-line attributes of s from position i on, in the
\* order of the elements
DataLinesFrom(s, i) ==
    LET k == IndexOfFrom(s, "data-line=\"", i)
    IN  IF k < 0 THEN <<>>
        ELSE IF IsDigit(CharAt(s, k + 11))
        THEN <<ParseDigits(s, k + 11, 0)>> \o DataLinesFrom(s, k + 11)
        ELSE DataLinesFrom(s, k + 11)

DataLines(s) == DataLinesFrom(s, 0)

IsBlank(line) == Trim(line) = ""

\* the fragment rendered for line i (0-based) of a text: processXHTMLContent
\* maps the lines one to one and joins them with '\n', 182-221
Fragment(document, text, i) == Split(RenderPass[document][text])[i + 1]

\* C17: line-number round trip.  In the content a render pass posts, the
\* fragment of every non-blank source line with index i carries the source
\* line number i + 1; and when a reveal request with a number that the
\* fragment of line i carries has been handled, the editor of the document
\* being the active one, the editor is scrolled to line i.
C17_LineNumberRoundTrip ==
    /\ \A k \in 1..Len(posted) :
           posted[k].command = "updateContent" =>
               LET d == previewManager.currentDocument
                   lines == Split(docText[d])
               IN  \A i \in 0..(Len(lines) - 1) :
                       ~IsBlank(lines[i + 1]) =>
                           \E n \in 1..Len(DataLines(Fragment(d, docText[d], i))) :
                               DataLines(Fragment(d, docText[d], i))[n] = i + 1
    /\ (delivered.kind = "reveal" /\ activeTextEditor = delivered.document) =>
           LET d == delivered.document
           IN  \A i \in LinesOf(d) :
                   (\E n \in 1..Len(DataLines(Fragment(d, docText[d], i))) :
                        DataLines(Fragment(d, docText[d], i))[n] = delivered.line)
                   => revealed[d] = i

(***************************************************************************)
(* Rendering: c.xml holds one of the texts to render; the user shows it in *)
(* the PreviewManager's panel and in the PreviewProvider's.                *)
(***************************************************************************)

InitRender ==
    /\ \E text \in RenderTexts :
           docText = [d \in Documents |-> IF d = "c.xml" THEN text ELSE InitialText(d)]
    /\ closedDocuments = {}
    /\ webview = "none"
    /\ timers = {}
    /\ selection = [d \in Documents |-> [line |-> 0, character |-> 0]]
    /\ revealed = [d \in Documents |-> -1]
    /\ selectionEvents = <<>>
    /\ decorations = [d \in Documents |-> {}]
    /\ InitExtension
    /\ activeTextEditor = "c.xml"
    /\ parser = NoCall

NextRender ==
    \/ ShowPreview
    \/ WebviewReady
    \/ PreviewTimerFire
    \/ PanelDispose
    \/ CreateOrShow("c.xml")
    \/ ProviderPanelDispose

SpecRender == InitRender /\ [][NextRender]_vars

\* the lines of a text that are not whitespace-only
NonBlankLines(text) == {i \in 1..Len(Split(text)) : ~IsBlank(Split(text)[i])}

\* C18: line-count invariant.  In the content of a render pass of the
\* PreviewManager and in the html of the PreviewProvider, the entries that
\* carry a source line number are as many as the source lines that are not
\* whitespace-only, and the fragment of a whitespace-only line carries none.
C18_LineCount ==
    /\ \A k \in 1..Len(posted) :
           posted[k].command = "updateContent" =>
               LET d == previewManager.currentDocument
                   lines == Split(docText[d])
               IN  /\ Len(DataLines(posted[k].content))
                          = Cardinality(NonBlankLines(docText[d]))
                   /\ \A i \in 0..(Len(lines) - 1) :
                          IsBlank(lines[i + 1]) =>
                              DataLines(Fragment(d, docText[d], i)) = <<>>
    /\ previewProvider._panel =>
           Len(DataLines(previewProvider.html))
               = Cardinality(NonBlankLines(docText[previewProvider._sourceEditor]))

\* C19: the source line numbers of one rendering are strictly increasing, and
\* so unique, in the order of the document: in the content of a render pass of
\* the PreviewManager and in the html of the PreviewProvider.
C19_StrictlyIncreasing ==
    /\ \A k \in 1..Len(posted) :
           posted[k].command = "updateContent" =>
               LET ns == DataLines(posted[k].content)
               IN  \A n \in 1..(Len(ns) - 1) : ns[n] < ns[n + 1]
    /\ previewProvider._panel =>
           LET ns == DataLines(previewProvider.html)
           IN  \A n \in 1..(Len(ns) - 1) : ns[n] < ns[n + 1]

(***************************************************************************)
(* DiagnosticManager.createDiagnostic as a function of its input: a call   *)
(* with any of the texts below as the document and a finding whose line    *)
(* and column are any of the numbers below, in the document or not.        *)
(***************************************************************************)

MaxReported == 3
Reported == (0 - 1)..MaxReported

PositionTexts == {"", "ab", "<a>", "a\n<b>", "x y\n\nzz"}

PositionMessages == {MsgXmlSyntax, MsgImgAlt, "alt" \o Zokusei}

InitPosition ==
    /\ InitHost
    /\ InitExtension
    /\ activeTextEditor = NoEditor
    /\ \E text \in PositionTexts, line \in Reported, column \in Reported,
          message \in PositionMessages, severity \in {"error", "warning"} :
           parser = [pc |-> "create", content |-> text,
                     error |-> [line |-> line, column |-> column, message |-> message,
                                severity |-> severity]]

\* the call returns
CreateDiagnostic ==
    /\ parser.pc = "create"
    /\ parser' = [pc |-> "created", content |-> parser.content, error |-> parser.error,
                  diagnostic |-> createDiagnostic(parser.error, parser.content)]
    /\ UNCHANGED <<docText, activeTextEditor, closedDocuments, webview, timers,
                   previewManager, diagnosticManager, posted, burst, vburst,
                   selection, revealed, selectionEvents, delivered,
                   previewProvider, decorations, thumbnailManager, webviewScript,
                   imageDockProvider, commands>>

NextPosition == CreateDiagnostic

SpecPosition == InitPosition /\ [][NextPosition]_vars

\* C20: finding positions are clamped.  The range of the diagnostic made from a
\* finding is on one line of the document, a line in 0..lineCount-1, and its
\* start and end columns are in 0..length of that line with start <= end,
\* whatever line and column the finding reported.
C20_PositionsClamped ==
    parser.pc = "created" =>
        LET range == parser.diagnostic.range
        IN  /\ range.line \in 0..(lineCount(parser.content) - 1)
            /\ range.start \in 0..Len(lineAt(parser.content, range.line))
            /\ range.end \in 0..Len(lineAt(parser.content, range.line))
            /\ range.start <= range.end

\* a diagnostic has been made from a finding that reported a line past the last
\* line of the document and a column past the end of that line
C20_Witness ==
    /\ parser.pc = "created"
    /\ parser.error.line > lineCount(parser.content) - 1
    /\ parser.error.column > Len(lineAt(parser.content, lineCount(parser.content) - 1))
    /\ parser.diagnostic.range.line = lineCount(parser.content) - 1
    /\ parser.content # ""

\* C21: the highlight span is at least one character.  The range of the
\* diagnostic made from a finding ends at a column greater than the one it
\* starts at, also when the clamped column is the end of the line or the line
\* is empty.
C21_AtLeastOneCharacter ==
    parser.pc = "created" =>
        parser.diagnostic.range.end > parser.diagnostic.range.start

WarningsAtLine0(result, message) ==
    {k \in 1..Len(result.errors) :
        /\ result.errors[k].severity = "warning"
        /\ result.errors[k].line = 0
        /\ result.errors[k].message = message}

\* C23: scenario A.  For the text <img src="a.png"> the findings a call of
\* validateXHTML returns include one warning about the missing self-closing
\* form and one warning about the missing alt attribute, both at line 0.
C23_ScenarioA ==
    (parser.pc = "returned" /\ parser.content = "<img src=\"a.png\">") =>
        /\ Cardinality(WarningsAtLine0(parser.result, MsgSelfClosing("img"))) = 1
        /\ Cardinality(WarningsAtLine0(parser.result, MsgImgAlt)) = 1

\* C24: scenario C.  When the document shown in the PreviewProvider's panel is
\* the empty text, the html holds no rendered entry and no spacer (nothing is
\* put into the template), and a call of validateXHTML with the empty text
\* returns no findings.
C24_ScenarioC ==
    (previewProvider._panel /\ docText[previewProvider._sourceEditor] = "") =>
        /\ previewProvider.html = PreviewTemplateHead \o PreviewTemplateTail
        /\ \A lib \in ParserLibs : validateXHTML("", lib).errors = <<>>

\* the DOCTYPE recommendations among the findings of a result
DoctypeWarnings(result) ==
    {k \in 1..Len(result.errors) :
        result.errors[k].message = MsgDoctype /\ result.errors[k].severity = "warning"}

\* the index of the line the declaration rule looks at: line 1 when line 0 is
\* an XML prolog and there is a line 1, line 0 otherwise
ExaminedLine(content) ==
    IF Len(Split(content)) >= 2 /\ StartsWith(Split(content)[1], "<?xml") THEN 1 ELSE 0

\* C25: declaration rule.  A call of validateXHTML returns a DOCTYPE
\* recommendation exactly when the XML check passed and the examined line,
\* trimmed and in lower case, starts with <!doctype html and holds no XHTML
\* marker; it then returns exactly one, it is for the examined line, and no
\* other line ever gets one.
C25_DeclarationRule ==
    parser.pc = "returned" =>
        LET e == ExaminedLine(parser.content)
            line == Split(parser.content)[e + 1]
            generic == /\ StartsWith(ToLowerCase(Trim(line)), "<!doctype html")
                       /\ ~Includes(line, "XHTML")
        IN  /\ Cardinality(DoctypeWarnings(parser.result))
                   = (IF parser.lib.validate.kind = "true" /\ generic THEN 1 ELSE 0)
            /\ \A k \in DoctypeWarnings(parser.result) : parser.result.errors[k].line = e

\* a call has returned one recommendation, for line 1 after an XML prolog, the
\* declaration written in lower case
C25_Witness ==
    /\ parser.pc = "returned"
    /\ StartsWith(parser.content, "<?xml")
    /\ Cardinality(DoctypeWarnings(parser.result)) = 1
    /\ \A k \in DoctypeWarnings(parser.result) : parser.result.errors[k].line = 1

(***************************************************************************)
(* ThumbnailManager (unnamed/part_000 and src/image-dock/ThumbnailManager  *)
(* .ts, the two classes of that name): a cache of raster files in the      *)
(* extension's global storage, which outlives the extension host.  A file  *)
(* of the cache is [key, for]: its name without ".png" and what it was     *)
(* generated for.  md5 is taken to give different digests for the          *)
(* different strings hashed here, so a key is the string that is hashed.   *)
(***************************************************************************)

Images == {"/i/a.png", "/i/b.svg"}
\* the image files that are written to while the extension runs
EditedImages == {"/i/a.png"}
MaxMtime == 2
Mtimes == 1..MaxMtime
ByteSizes == {10, 20}
\* the values of the setting ximgdock.thumbnailSize
ThumbnailSizes == {64, 128}
MaxPending == 1

\* path.extname(inputPath).toLowerCase() === '.svg'
IsSvg(filePath) == Substring(filePath, Len(filePath) - 4, Len(filePath)) = ".svg"

\* generateHash of src/image-dock/ThumbnailManager.ts, 56-60
generateHash_PathMtimeSize(tm, filePath) ==
    filePath \o ":" \o ToString(tm.stats[filePath].mtime)
             \o ":" \o ToString(tm.stats[filePath].size)

\* generateHash(filePath), unnamed/part_000 89-93
generateHash(tm, filePath) ==
    IF tm.keyWithSize
    THEN filePath \o ":" \o ToString(tm.stats[filePath].mtime)
                  \o ":" \o ToString(tm.stats[filePath].size)
                  \o ":" \o ToString(tm.thumbnailSize)
    ELSE generateHash_PathMtimeSize(tm, filePath)

\* what a request for filePath asks for now
Requested(tm, filePath) ==
    [path |-> filePath, mtime |-> tm.stats[filePath].mtime,
     size |-> tm.stats[filePath].size, thumbnailSize |-> tm.thumbnailSize]

\* fs.existsSync(thumbnailPath)
CacheKeys(tm) == {f.key : f \in tm.cache}

\* toFile(outputPath): the file is created or overwritten
ToFile(cache, key, for) == {f \in cache : f.key # key} \cup {[key |-> key, for |-> for]}

\* the files an earlier run of the extension host can have left in the cache
\* directory: thumbnails it generated with its own setting
LeftBehind(tm) ==
    {[key |-> generateHash([tm EXCEPT !.thumbnailSize = ts], filePath),
      for |-> Requested([tm EXCEPT !.thumbnailSize = ts], filePath)] :
        ts \in ThumbnailSizes, filePath \in EditedImages}

InitThumbnail ==
    /\ InitHost
    /\ InitManagers
    /\ webviewScript = NoScript
    /\ NoImageDock
    /\ activeTextEditor = NoEditor
    /\ parser = NoCall
    /\ \E keyWithSize \in BOOLEAN, sharp \in BOOLEAN, thumbnailSize \in ThumbnailSizes,
          old \in ThumbnailSizes \cup {0} :
           LET tm == [constructed |-> TRUE, keyWithSize |-> keyWithSize, sharp |-> sharp,
                      thumbnailSize |-> thumbnailSize,
                      stats |-> [i \in Images |-> [mtime |-> 1, size |-> 10]],
                      cache |-> {}, pending |-> {}, returned |-> [kind |-> "none"]]
           IN  thumbnailManager =
                   [tm EXCEPT !.cache = {f \in LeftBehind(tm) : f.for.thumbnailSize = old}]

ThumbnailOnly ==
    UNCHANGED <<docText, activeTextEditor, closedDocuments, webview, timers,
                previewManager, diagnosticManager, posted, burst, vburst,
                selection, revealed, selectionEvents, delivered,
                previewProvider, decorations, parser, webviewScript,
                imageDockProvider, commands>>

\* the calls of getThumbnail that wait for generateThumbnail and whose toFile
\* has created the output file and not yet completed it
Writing(tm, key) == {p \in tm.pending : p.key = key /\ p.writing}

\* the number a new call of getThumbnail is known by
NewCall(tm) == CHOOSE n \in 1..(Cardinality(tm.pending) + 1) : \A p \in tm.pending : p.call # n

\* getThumbnail(imageUri) up to its first await, 32-46 (part_000).  existsSync
\* finds a file that is complete and one that a toFile is still writing.
GetThumbnail(filePath) ==
    LET tm == thumbnailManager
        imageHash == generateHash(tm, filePath)
    IN  /\ tm.constructed
        /\ thumbnailManager' =
               IF ~tm.sharp THEN [tm EXCEPT !.returned = [kind |-> "icon"]]
               ELSE IF Writing(tm, imageHash) # {}
               THEN [tm EXCEPT !.returned =
                        [kind |-> "cached", request |-> Requested(tm, filePath),
                         for |-> (CHOOSE p \in Writing(tm, imageHash) : TRUE).for,
                         complete |-> FALSE]]
               ELSE IF imageHash \in CacheKeys(tm)
               THEN [tm EXCEPT !.returned =
                        [kind |-> "cached", request |-> Requested(tm, filePath),
                         for |-> (CHOOSE f \in tm.cache : f.key = imageHash).for,
                         complete |-> TRUE]]
               ELSE [tm EXCEPT !.returned = [kind |-> "none"],
                               !.pending = @ \cup {[key |-> imageHash,
                                                    for |-> Requested(tm, filePath),
                                                    call |-> NewCall(tm),
                                                    writing |-> FALSE]}]
        /\ ThumbnailOnly

\* toFile(outputPath) of a call creates the output file, 106-113 and 128-135
WriteStarts ==
    \E p \in thumbnailManager.pending :
        /\ ~p.writing
        /\ thumbnailManager' =
               [thumbnailManager EXCEPT
                    !.pending = (@ \ {p}) \cup {[p EXCEPT !.writing = TRUE]},
                    !.returned = [kind |-> "none"]]
        /\ ThumbnailOnly

\* sharp(...).resize(...).png().toFile(outputPath) completes: generateThumbnail
\* returns and getThumbnail returns thumbnailUri
GenerationDone ==
    \E p \in thumbnailManager.pending :
        /\ thumbnailManager' =
               [thumbnailManager EXCEPT
                    !.pending = @ \ {p},
                    !.cache = ToFile(@, p.key, p.for),
                    !.returned = [kind |-> "generated", request |-> p.for, for |-> p.for]]
        /\ ThumbnailOnly

\* sharp fails.  part_000 (catch, 117-121 and 136-140) and the svg branch of
\* ThumbnailManager.ts (95-98) write the default thumbnail, in the size the
\* field has by then; the other branch of ThumbnailManager.ts rethrows.
GenerationFails ==
    \E p \in thumbnailManager.pending :
        LET tm == thumbnailManager
            fallback == [p.for EXCEPT !.thumbnailSize = tm.thumbnailSize]
        IN  /\ thumbnailManager' =
                   IF tm.keyWithSize \/ IsSvg(p.for.path)
                   THEN [tm EXCEPT !.pending = @ \ {p},
                                   !.cache = ToFile(@, p.key, fallback),
                                   !.returned = [kind |-> "generated", request |-> fallback,
                                                 for |-> fallback]]
                   ELSE [tm EXCEPT !.pending = @ \ {p}, !.returned = [kind |-> "error"]]
            /\ ThumbnailOnly

\* clearCache(), 165-182: every file of the cache directory is unlinked
clearCache(tm) ==
    [tm EXCEPT !.cache = {}, !.pending = {[p EXCEPT !.writing = FALSE] : p \in @}]

\* updateThumbnailSize(size), 184-192
updateThumbnailSize(tm, size) ==
    IF size # tm.thumbnailSize THEN clearCache([tm EXCEPT !.thumbnailSize = size]) ELSE tm

ClearCache ==
    /\ thumbnailManager.constructed
    /\ thumbnailManager.cache # {}
    /\ thumbnailManager' = clearCache(thumbnailManager)
    /\ ThumbnailOnly

UpdateThumbnailSize(size) ==
    /\ thumbnailManager.constructed
    /\ size # thumbnailManager.thumbnailSize
    /\ thumbnailManager' = updateThumbnailSize(thumbnailManager, size)
    /\ ThumbnailOnly

\* the user or a tool writes the image file
FileChange(filePath, mtime, size) ==
    /\ thumbnailManager.constructed
    /\ thumbnailManager.stats[filePath] # [mtime |-> mtime, size |-> size]
    /\ thumbnailManager' =
           [thumbnailManager EXCEPT !.stats[filePath] = [mtime |-> mtime, size |-> size]]
    /\ ThumbnailOnly

NextThumbnail ==
    \/ \E filePath \in Images :
           GetThumbnail(filePath) /\ Cardinality(thumbnailManager'.pending) <= MaxPending
    \/ WriteStarts
    \/ GenerationDone
    \/ GenerationFails
    \/ ClearCache
    \/ \E size \in ThumbnailSizes : UpdateThumbnailSize(size)
    \/ \E filePath \in EditedImages, mtime \in Mtimes, size \in ByteSizes :
           FileChange(filePath, mtime, size)

SpecThumbnail == InitThumbnail /\ [][NextThumbnail]_vars

\* C26: thumbnail cache key.  A cached raster file that getThumbnail returns
\* was generated for the absolute path, the modification time, the byte size
\* and the target pixel size of the request: a thumbnail generated before one of
\* the four changed is not returned for the changed request.
C26_CacheKey ==
    thumbnailManager.returned.kind = "cached" =>
        thumbnailManager.returned.for = thumbnailManager.returned.request

\* C27: debounce handles never accumulate.  In every reachable state at most
\* one render-debounce timer of the PreviewManager is scheduled and not yet
\* fired, and at most one validation timer per document; the pending timer is
\* the one the handle names (updateTimer, the entry of updateTimers), which is
\* the one the next restart cancels.
C27_HandlesNeverAccumulate ==
    /\ Cardinality(PreviewTimers) <= 1
    /\ \A t \in PreviewTimers : t.id = previewManager.updateTimer
    /\ \A d \in Documents :
           /\ Cardinality(DiagTimersOf(d)) <= 1
           /\ \A t \in DiagTimersOf(d) : t.id = diagnosticManager.updateTimers[d]

\* both debounces of a.xhtml are pending after a restart: the document has
\* had two events or more within the delay while the panel shows it
C27_Witness ==
    /\ previewManager.panel
    /\ previewManager.currentDocument = "a.xhtml"
    /\ Cardinality(PreviewTimers) = 1
    /\ Cardinality(DiagTimersOf("a.xhtml")) = 1
    /\ vburst["a.xhtml"].calls >= 2

\* C28: events are dropped while suppressing.  A step in which the selection
\* listener handles an event while isUpdatingFromWebview is true posts no
\* message to the webview and leaves every field of the PreviewManager as it is.
C28_DroppedWhileSuppressing ==
    [][(DeliverSelection /\ previewManager.isUpdatingFromWebview)
           => /\ posted' = <<>>
              /\ previewManager' = previewManager]_vars

\* the listener has just dropped an event that it would have answered with a
\* message: the event is for the previewed document and for the line of the
\* last click, taken less than 500 ms ago
C28_Witness ==
    /\ delivered.kind = "selection"
    /\ previewManager.isUpdatingFromWebview
    /\ previewManager.panel
    /\ delivered.document = previewManager.currentDocument
    /\ previewManager.lastClickTime = "recent"
    /\ delivered.line = previewManager.lastClickLine
    /\ posted = <<>>

\* the render passes among the messages a step posted
RenderPasses(messages) == {k \in 1..Len(messages) : messages[k].command = "updateContent"}

\* C29: no stale or duplicate renders.  A step pushes at most one render pass
\* to the webview, and a render pass never runs while a render-debounce timer
\* is pending: after a step with a render pass no such timer is left, so no
\* second pass follows before the next triggering event (open, change, save)
\* schedules one.  The 'ready' message of the webview is such a step.
C29_NoStaleOrDuplicateRenders ==
    [][/\ Cardinality(RenderPasses(posted')) <= 1
       /\ RenderPasses(posted') # {} => PreviewTimers' = {}]_vars

(***************************************************************************)
(* The PreviewProvider while its panel stays open: the user shows editors  *)
(* in it and the webview asks for lines, and nobody closes the panel.      *)
(***************************************************************************)

HighlightTimers == {t \in timers : t.kind = "highlight"}

NextHighlight ==
    \/ \E editor \in Documents \cup {NoEditor} : CreateOrShow(editor)
    \/ \E line \in ProviderLines : HandleRevealLine(line)
    \/ HighlightTimerFire
    \/ \E d \in Documents : ProviderUpdate(d)
    \/ \E line \in ProviderLines : ProviderScrollToLine(line)

SpecHighlight == InitProvider /\ [][NextHighlight]_vars

\* C30: every source highlight decays.  At most one highlight-removal timer is
\* pending, and while the panel is open every editor that carries the highlight
\* decoration has a pending timer that will remove it: also after a later
\* reveal, and after createOrShow changed the source editor between two reveals.
C30_EveryHighlightDecays ==
    /\ Cardinality(HighlightTimers) <= 1
    /\ previewProvider._panel =>
           \A d \in Documents :
               decorations[d] # {} => \E t \in HighlightTimers : t.editor = d

\* the timers of scrollToLine that are scheduled and have not fired
ResetTimers == {t \in timers : t.kind = "reset"}

\* C31: overlapping reveals keep suppression.  When the reset timer of a reveal
\* fires while the reset timer of a later reveal is still pending, the flag
\* isUpdatingFromWebview stays true: it is not cleared before the reset delay
\* of the latest reveal has elapsed.
C31_OverlappingRevealsKeepSuppression ==
    [][(previewManager.isUpdatingFromWebview /\ ResetTimers' # {})
           => previewManager'.isUpdatingFromWebview]_vars

\* C32: suppression never sticks.  In every reachable state the flag
\* isUpdatingFromWebview is true only if a timer of scrollToLine that will set
\* it to false is pending, whatever lines the reveal requests carried.
C32_SuppressionNeverSticks ==
    previewManager.isUpdatingFromWebview => ResetTimers # {}

(***************************************************************************)
(* The script of the preview webview (unnamed/part_006, the script.js the  *)
(* PreviewManager of part_005 loads, and unnamed/part_007, its earlier     *)
(* version).  The heights of the elements and of the viewport are the      *)
(* host's: whether scrollIntoView moves the view, and which element is     *)
(* then closest to the centre of the viewport, are choices of the host.    *)
(***************************************************************************)

Scripts == {"part_006", "part_007"}

\* the script as it is when it has loaded: part_006 1-8 and 179, part_007 1-3 and 82
LoadedScript(version) ==
    [loaded |-> version, inbox |-> <<>>, lines |-> {}, currentHighlightLine |-> -1,
     scrollTimeout |-> "none"]

\* the messages the script has yet to handle are at most
MaxInbox == 1

Elements(content) == {DataLines(content)[k] : k \in 1..Len(DataLines(content))}

\* updateContent(content): part_006 26-119, part_007 19-58
ScriptUpdateContent(script, content) == [script EXCEPT !.lines = Elements(content)]

\* scrollToLine(line): part_006 121-160, part_007 60-79.  moved: scrollIntoView
\* moves the view, and the scroll listener (part_006 180-185, part_007 83-88)
\* restarts its debounce.
ScriptScrollToLine(script, line, moved) ==
    IF line \in script.lines
    THEN [script EXCEPT !.currentHighlightLine = line,
                        !.scrollTimeout = IF moved THEN "message" ELSE @]
    ELSE script

\* Math.abs
Abs(n) == IF n < 0 THEN 0 - n ELSE n

\* whether the callback of the scroll debounce posts 'scrollToLine' for the
\* element closest to the centre: part_006 206-216, part_007 109-115
ScrollPosts(script, line) ==
    IF script.loaded = "part_006" THEN Abs(line - script.currentHighlightLine) > 2
    ELSE TRUE

EchoDocument == "c.xml"
EchoText == "<a>\n\n\n<b>"
EchoLines == {0, 3}

InitEcho ==
    /\ docText = [d \in Documents |-> IF d = EchoDocument THEN EchoText ELSE InitialText(d)]
    /\ closedDocuments = {}
    /\ webview = "none"
    /\ timers = {}
    /\ selection = [d \in Documents |-> [line |-> 0, character |-> 0]]
    /\ revealed = [d \in Documents |-> -1]
    /\ selectionEvents = <<>>
    /\ decorations = [d \in Documents |-> {}]
    /\ InitManagers
    /\ thumbnailManager = NoThumbnailManager
    /\ activeTextEditor = EchoDocument
    /\ parser = NoCall
    /\ NoImageDock
    /\ \E version \in Scripts : webviewScript = LoadedScript(version)

\* the script handles the oldest message: the message listener, part_006 11-24,
\* part_007 6-17
ScriptReceive ==
    /\ webview = "ready"
    /\ webviewScript.loaded # "none"
    /\ webviewScript.inbox # <<>>
    /\ \E moved \in BOOLEAN :
           LET message == Head(webviewScript.inbox)
               script == [webviewScript EXCEPT !.inbox = Tail(@)]
               w == World(docText, timers)
           IN  /\ moved => (message.command = "scrollToLine" /\ message.line \in script.lines)
               /\ Commit([w EXCEPT !.script =
                              IF message.command = "updateContent"
                              THEN ScriptUpdateContent(script, message.content)
                              ELSE ScriptScrollToLine(script, message.line, moved)])
    /\ UNCHANGED <<docText, activeTextEditor, closedDocuments, webview>>

\* the user scrolls the preview: the scroll listener, part_006 180-185, part_007 83-88
UserScrollsPreview ==
    /\ webview = "ready"
    /\ webviewScript.loaded # "none"
    /\ webviewScript.scrollTimeout # "user"
    /\ Commit([World(docText, timers) EXCEPT !.script.scrollTimeout = "user"])
    /\ UNCHANGED <<docText, activeTextEditor, closedDocuments, webview>>

\* the debounce of the scroll listener expires: its callback, part_006 185-217,
\* part_007 88-116, and the extension's message listener for what it posts
ScrollTimerFire ==
    /\ webview = "ready"
    /\ webviewScript.loaded # "none"
    /\ webviewScript.scrollTimeout # "none"
    /\ Len(selectionEvents) < MaxQueue
    /\ Cardinality({t \in timers : t.kind = "reset"}) < MaxResetTimers
    /\ LET script == webviewScript
           w == [World(docText, timers) EXCEPT !.script.scrollTimeout = "none"]
       IN  \/ /\ script.lines = {}
              /\ Commit(w)
           \/ \E line \in script.lines :
                  IF ScrollPosts(script, line)
                  THEN Commit(OnRevealMessage(
                           [w EXCEPT !.delivered =
                                [kind |-> "reveal", line |-> line,
                                 cause |-> IF script.scrollTimeout = "message"
                                           THEN "echo" ELSE "scroll",
                                 document |-> previewManager.currentDocument]],
                           line, activeTextEditor))
                  ELSE Commit(w)
    /\ UNCHANGED <<docText, activeTextEditor, closedDocuments, webview>>

NextEcho ==
    \/ ShowPreview
    \/ WebviewReady
    \/ Len(webviewScript.inbox) < MaxInbox /\ PreviewTimerFire
    \/ \E line \in EchoLines, character \in Columns :
           selectionEvents = <<>> /\ UserSelect(line, character)
    \/ Len(webviewScript.inbox) < MaxInbox /\ DeliverSelection
    \/ ResetTimerFire
    \/ ScriptReceive
    \/ UserScrollsPreview
    \/ ScrollTimerFire

SpecEcho == InitEcho /\ [][NextEcho]_vars

\* C33: no echo in the reverse direction.  When the debounce of a scroll that
\* the view made in response to a 'scrollToLine' of the extension expires, the
\* cursor and the scroll position of the source editor stay as they are.
C33_NoReverseEcho ==
    [][(webviewScript.scrollTimeout = "message" /\ webviewScript'.scrollTimeout = "none")
           => (selection' = selection /\ revealed' = revealed)]_vars

(***************************************************************************)
(* Clearing diagnostics (webpack.config.js 216-222) while documents are    *)
(* edited, saved and shown as in SpecDiag.                                 *)
(***************************************************************************)

\* clearDiagnostics(document), 216-218: diagnosticCollection.delete(document.uri)
clearDiagnostics(w, document) == [w EXCEPT !.dm.diagnosticCollection[document] = <<>>]

\* clearAllDiagnostics(), 220-222: diagnosticCollection.clear()
clearAllDiagnostics(w) ==
    [w EXCEPT !.dm.diagnosticCollection = [d \in Documents |-> <<>>]]

ClearDiagnostics(document) ==
    /\ Commit(clearDiagnostics(
           [World(docText, timers) EXCEPT
                !.delivered = [NoDelivery EXCEPT !.kind = "clear", !.document = document]],
           document))
    /\ UNCHANGED <<docText, activeTextEditor, closedDocuments, webview>>

ClearAllDiagnostics ==
    /\ Commit(clearAllDiagnostics(
           [World(docText, timers) EXCEPT
                !.delivered = [NoDelivery EXCEPT !.kind = "clearAll"]]))
    /\ UNCHANGED <<docText, activeTextEditor, closedDocuments, webview>>

NextClear ==
    \/ \E d \in Validated : \E text \in TextsOf(d) : DocChange(d, text)
    \/ \E d \in Validated : DocSave(d)
    \/ \E e \in Validated \cup {NoEditor} : ActivateEditor(e)
    \/ \E d \in Validated : DiagTimerFireOf(d)
    \/ \E d \in Validated : ClearDiagnostics(d)
    \/ ClearAllDiagnostics

SpecClear == InitDiag /\ [][NextClear]_vars

\* C34: clearing wins over a pending validation.  When the step that follows
\* clearDiagnostics(d) or clearAllDiagnostics() is the expiry of the validation
\* debounce of d, a timer that was pending when the findings were cleared, no
\* findings are published for d.
C34_ClearingWins ==
    [][\A d \in Validated :
           (/\ \/ delivered.kind = "clear" /\ delivered.document = d
               \/ delivered.kind = "clearAll"
            /\ DiagTimerFireOf(d))
               => diagnosticManager'.diagnosticCollection[d] = <<>>]_vars

(***************************************************************************)
(* The script of the PreviewProvider's webview (src/webview/main.js, and   *)
(* unnamed/part_003 with the same code).  Its timers all wait 1000 ms, so  *)
(* they expire in the order in which they were started: timeouts holds,    *)
(* oldest first, the element each pending timer captured.                  *)
(***************************************************************************)

\* currentHighlightedElement = null
NoElement == -1

\* the page the script runs in: the html of a document of four lines, two of
\* them blank
ScriptPage == ProviderHtml["c.xml"]["<a>\n\n\n<b>"]

\* the script as it is when the page has loaded, 13-19
LoadedMain ==
    [loaded |-> "main.js", lines |-> Elements(ScriptPage), highlight |-> {},
     currentHighlightedElement |-> NoElement, timeouts |-> <<>>]

\* the lines a 'scrollTo' message names, and the timers pending at once
MaxScrollTo == 5
ScrollToLines == 1..MaxScrollTo
MaxTimeouts == 6

\* a listener that leaves the highlight of the previous element in place
OnScrollTo_KeepsPrevious(script, line) ==
    IF line \in script.lines
    THEN [script EXCEPT !.highlight = @ \cup {line},
                        !.currentHighlightedElement = line,
                        !.timeouts = Append(@, line)]
    ELSE script

\* the message listener for 'scrollTo', 22-59
OnScrollTo(script, line) ==
    IF line \in script.lines
    THEN [script EXCEPT !.highlight = (@ \ {script.currentHighlightedElement}) \cup {line},
                        !.currentHighlightedElement = line,
                        !.timeouts = Append(@, line)]
    ELSE script

\* the callback of the timer the listener starts, 41-48
OnDecay(script, element) ==
    IF script.currentHighlightedElement = element
    THEN [script EXCEPT !.highlight = @ \ {script.currentHighlightedElement},
                        !.currentHighlightedElement = NoElement]
    ELSE script

ScriptOnly ==
    UNCHANGED <<docText, activeTextEditor, closedDocuments, webview, timers,
                previewManager, diagnosticManager, posted, burst, vburst,
                selection, revealed, selectionEvents, delivered,
                previewProvider, decorations, parser, thumbnailManager,
                imageDockProvider, commands>>

InitScript ==
    /\ InitHost
    /\ InitManagers
    /\ thumbnailManager = NoThumbnailManager
    /\ activeTextEditor = NoEditor
    /\ parser = NoCall
    /\ webviewScript = LoadedMain
    /\ NoImageDock

\* the webview receives 'scrollTo' for a line
ScrollTo(line) ==
    /\ webviewScript.loaded = "main.js"
    /\ Len(webviewScript.timeouts) < MaxTimeouts
    /\ webviewScript' = OnScrollTo(webviewScript, line)
    /\ ScriptOnly

\* the 1000 ms of the oldest timer are over
DecayTimerFire ==
    /\ webviewScript.loaded = "main.js"
    /\ webviewScript.timeouts # <<>>
    /\ webviewScript' = OnDecay([webviewScript EXCEPT !.timeouts = Tail(@)],
                                Head(webviewScript.timeouts))
    /\ ScriptOnly

NextScript ==
    \/ \E line \in ScrollToLines : ScrollTo(line)
    \/ DecayTimerFire

SpecScript == InitScript /\ [][NextScript]_vars

\* C35: the highlight of the rendered view lasts the full decay window.  While
\* the timer of the latest 'scrollTo' for an existing line is pending, the
\* element of that line is highlighted.
C35_HighlightLastsWindow ==
    webviewScript.timeouts # <<>> =>
        webviewScript.timeouts[Len(webviewScript.timeouts)] \in webviewScript.highlight

\* C36: at most one highlighted element.  At most one element carries the
\* highlight class; if one does it is currentHighlightedElement, and none does
\* when currentHighlightedElement is null.
C36_AtMostOneHighlighted ==
    /\ Cardinality(webviewScript.highlight) <= 1
    /\ webviewScript.highlight # {} =>
           webviewScript.highlight = {webviewScript.currentHighlightedElement}
    /\ webviewScript.currentHighlightedElement = NoElement => webviewScript.highlight = {}

\* an element is highlighted while the timer of another element, highlighted
\* before it, is pending
C36_Witness ==
    /\ webviewScript.highlight # {}
    /\ \E k \in 1..Len(webviewScript.timeouts) :
           webviewScript.timeouts[k] \notin webviewScript.highlight

(***************************************************************************)
(* Calls of getThumbnail that overlap: setIcon (part_001 302-314) of every *)
(* ImageItem that a loadImages run creates calls getThumbnail and is not   *)
(* awaited, and setImageFolder and refresh (part_001 160-177) each start a *)
(* loadImages run.                                                         *)
(***************************************************************************)

\* the calls that wait for generateThumbnail at once
MaxConcurrent == 2

NextIcons ==
    \/ \E filePath \in Images :
           GetThumbnail(filePath) /\ Cardinality(thumbnailManager'.pending) <= MaxConcurrent
    \/ WriteStarts
    \/ GenerationDone
    \/ GenerationFails

SpecIcons == InitThumbnail /\ [][NextIcons]_vars

\* C37: no thumbnail is returned before it is complete.  A call of getThumbnail
\* that returns the path of a cached file returns a file that no other call is
\* still writing, and no two calls generate the same cached file.
C37_NoThumbnailBeforeComplete ==
    /\ thumbnailManager.returned.kind = "cached" => thumbnailManager.returned.complete
    /\ \A p, q \in thumbnailManager.pending : p.key = q.key => p = q

(***************************************************************************)
(* ImageDockProvider (unnamed/part_001; unnamed/part_002 1-105 has the     *)
(* same setImageFolder, setSortOrder, refresh, loadImages and sortImages). *)
(* A loadImages run waits twice: for readDirectory and, after the map      *)
(* callbacks have built the paths, for the stat calls of Promise.all.      *)
(***************************************************************************)

NoFolder == "undefined"
Folders == {"/imgs/a", "/imgs/b"}
SortOrders == {"name", "size", "date"}

\* the entries of the folders, in the order readDirectory gives them
DirectoryOf(folder) ==
    IF folder = "/imgs/a"
    THEN <<[name |-> "b.png", type |-> "File", size |-> 10, mtime |-> 2],
           [name |-> "a.SVG", type |-> "File", size |-> 20, mtime |-> 1],
           [name |-> "notes.txt", type |-> "File", size |-> 5, mtime |-> 3],
           [name |-> "old.png", type |-> "Directory", size |-> 0, mtime |-> 0]>>
    ELSE <<[name |-> "c.jpg", type |-> "File", size |-> 30, mtime |-> 3]>>

\* String.prototype.endsWith
EndsWith(s, suffix) ==
    Len(s) >= Len(suffix) /\ Substring(s, Len(s) - Len(suffix), Len(s)) = suffix

imageExtensions == <<".png", ".jpg", ".jpeg", ".gif", ".bmp", ".webp", ".svg">>

\* the filter of loadImages, 224-228
IsImageFile(entry) ==
    /\ entry.type = "File"
    /\ \E k \in 1..Len(imageExtensions) : EndsWith(ToLowerCase(entry.name), imageExtensions[k])

\* vscode.Uri.joinPath(folder, name)
JoinPath(folder, name) == folder \o "/" \o name

\* vscode.workspace.fs.stat(filePath): the entry of the file, or none
Stat(filePath) ==
    {e \in UNION {{DirectoryOf(f)[k] : k \in 1..Len(DirectoryOf(f))} : f \in Folders} :
        \E f \in Folders : e \in {DirectoryOf(f)[k] : k \in 1..Len(DirectoryOf(f))}
                           /\ JoinPath(f, e.name) = filePath}

\* a.fileName.localeCompare(b.fileName) for the names of the folders
NameOrder == <<"a.SVG", "b.png", "c.jpg", "notes.txt", "old.png">>
LocaleCompare(a, b) ==
    (CHOOSE k \in 1..Len(NameOrder) : NameOrder[k] = a)
        - (CHOOSE k \in 1..Len(NameOrder) : NameOrder[k] = b)

\* the comparison function of sortImages, 253-264
Compare(a, b, order) ==
    IF order = "name" THEN LocaleCompare(a.fileName, b.fileName)
    ELSE IF order = "size" THEN b.size - a.size
    ELSE IF order = "date" THEN b.modifiedDate - a.modifiedDate
    ELSE 0

RECURSIVE Insert(_, _, _)
\* item put behind the last element of sorted that does not come after it
Insert(item, sorted, order) ==
    IF sorted = <<>> THEN <<item>>
    ELSE IF Compare(sorted[Len(sorted)], item, order) <= 0 THEN Append(sorted, item)
    ELSE Append(Insert(item, SubSeq(sorted, 1, Len(sorted) - 1), order), sorted[Len(sorted)])

RECURSIVE sortImages(_, _)
\* sortImages(), 252-265: Array.prototype.sort, which is stable
sortImages(images, order) ==
    IF images = <<>> THEN <<>>
    ELSE Insert(images[Len(images)], sortImages(SubSeq(images, 1, Len(images) - 1), order),
                order)

\* the loadImages runs in progress at once
MaxRuns == 2

NewRun(dp) == CHOOSE n \in 1..(Cardinality(dp.runs) + 1) : \A r \in dp.runs : r.id # n

\* loadImages() up to the await of readDirectory, 214-221; then: what the
\* caller does once the run has completed
loadImages(dp, then) ==
    IF dp.imageFolder = NoFolder THEN [dp EXCEPT !.images = <<>>]
    ELSE [dp EXCEPT !.runs = @ \cup {[id |-> NewRun(dp), pc |-> "readDirectory",
                                      folder |-> dp.imageFolder, paths |-> <<>>,
                                      then |-> then]}]

\* refresh(), 172-177
refresh(dp) == IF dp.imageFolder # NoFolder THEN loadImages(dp, "none") ELSE dp

\* setImageFolder(folderUri) up to its await, 160-162; 163 runs after the run
setImageFolder(dp, folderUri) == loadImages([dp EXCEPT !.imageFolder = folderUri], "refresh")

\* setSortOrder(order), 166-170
setSortOrder(dp, order) ==
    refresh([dp EXCEPT !.sortOrder = order, !.images = sortImages(@, order)])

\* loadImages() from readDirectory to the await of stat in the map callbacks,
\* 221-231: the paths are joined to the folder the field holds by now
AfterReadDirectory(dp, run) ==
    LET files == SelectSeq(DirectoryOf(run.folder), IsImageFile)
        paths == [k \in 1..Len(files) |->
                     [name |-> files[k].name, filePath |-> JoinPath(dp.imageFolder, files[k].name)]]
    IN  [dp EXCEPT !.runs = (@ \ {run}) \cup {[run EXCEPT !.pc = "stat", !.paths = paths]}]

\* loadImages() from Promise.all on, 243-249, and what the caller does next
AfterStat(dp, run) ==
    LET found == \A k \in 1..Len(run.paths) : Stat(run.paths[k].filePath) # {}
        items == [k \in 1..Len(run.paths) |->
                     LET stats == CHOOSE e \in Stat(run.paths[k].filePath) : TRUE
                     IN  [fileName |-> run.paths[k].name, filePath |-> run.paths[k].filePath,
                          size |-> stats.size, modifiedDate |-> stats.mtime]]
        loaded == [dp EXCEPT !.runs = @ \ {run},
                             !.images = IF found THEN sortImages(items, dp.sortOrder)
                                        ELSE <<>>]
    IN  IF run.then = "refresh" THEN refresh(loaded) ELSE loaded

DockOnly ==
    UNCHANGED <<docText, activeTextEditor, closedDocuments, webview, timers,
                previewManager, diagnosticManager, posted, burst, vburst,
                selection, revealed, selectionEvents, delivered,
                previewProvider, decorations, parser, thumbnailManager, webviewScript>>

\* the provider as its constructor leaves it, 10-19
NewImageDockProvider ==
    [constructed |-> TRUE, imageFolder |-> NoFolder, images |-> <<>>, sortOrder |-> "name",
     runs |-> {}]

InitDock ==
    /\ InitHost
    /\ InitManagers
    /\ thumbnailManager = NoThumbnailManager
    /\ webviewScript = NoScript
    /\ activeTextEditor = NoEditor
    /\ parser = NoCall
    /\ imageDockProvider = NewImageDockProvider
    /\ commands = [registered |-> {}, activate |-> "left out"]

SetImageFolder(folderUri) ==
    /\ imageDockProvider.constructed
    /\ Cardinality(imageDockProvider.runs) < MaxRuns
    /\ imageDockProvider' = setImageFolder(imageDockProvider, folderUri)
    /\ UNCHANGED commands
    /\ DockOnly

Refresh ==
    /\ imageDockProvider.constructed
    /\ Cardinality(imageDockProvider.runs) < MaxRuns
    /\ imageDockProvider' = refresh(imageDockProvider)
    /\ UNCHANGED commands
    /\ DockOnly

SetSortOrder(order) ==
    /\ imageDockProvider.constructed
    /\ Cardinality(imageDockProvider.runs) < MaxRuns
    /\ imageDockProvider' = setSortOrder(imageDockProvider, order)
    /\ UNCHANGED commands
    /\ DockOnly

\* readDirectory of a run resolves
ReadDirectoryDone ==
    /\ imageDockProvider.constructed
    /\ \E run \in imageDockProvider.runs :
        /\ run.pc = "readDirectory"
        /\ imageDockProvider' = AfterReadDirectory(imageDockProvider, run)
        /\ UNCHANGED commands
        /\ DockOnly

\* the stat calls of a run have all settled
StatDone ==
    /\ imageDockProvider.constructed
    /\ \E run \in imageDockProvider.runs :
        /\ run.pc = "stat"
        /\ imageDockProvider' = AfterStat(imageDockProvider, run)
        /\ UNCHANGED commands
        /\ DockOnly

NextDock ==
    \/ \E folderUri \in Folders : SetImageFolder(folderUri)
    \/ Refresh
    \/ \E order \in SortOrders : SetSortOrder(order)
    \/ ReadDirectoryDone
    \/ StatDone

SpecDock == InitDock /\ [][NextDock]_vars

\* the ImageItems of the image files of a folder
ImagesOf(folder) ==
    {[fileName |-> e.name, filePath |-> JoinPath(folder, e.name), size |-> e.size,
      modifiedDate |-> e.mtime] :
        e \in {d \in {DirectoryOf(folder)[k] : k \in 1..Len(DirectoryOf(folder))} :
                  IsImageFile(d)}}

\* C38: the image list matches the selected folder.  Once no loadImages run is
\* in progress, images holds exactly the image files of the selected folder,
\* each once and with its path in that folder, in the current sort order.
C38_ListMatchesFolder ==
    LET dp == imageDockProvider
    IN  (dp.constructed /\ dp.runs = {} /\ dp.imageFolder # NoFolder) =>
            /\ {dp.images[k] : k \in 1..Len(dp.images)} = ImagesOf(dp.imageFolder)
            /\ Len(dp.images) = Cardinality(ImagesOf(dp.imageFolder))
            /\ \A i, j \in 1..Len(dp.images) :
                   i < j => Compare(dp.images[i], dp.images[j], dp.sortOrder) <= 0

(***************************************************************************)
(* The commands (src/extension.ts 121-220) and the messages of the gallery *)
(* webview of ImageTreeView (unnamed/part_002 152-268).  registerCommand   *)
(* throws for an identifier that is registered already, and executeCommand *)
(* is rejected for one that is not registered.                             *)
(***************************************************************************)

\* the ImageDockProvider that activate constructs: part_001 registers a
\* command in its constructor (16-27), part_002 does not (15-17)
Providers == {"part_001", "part_002"}

ConstructorRegistrations(provider) ==
    IF provider = "part_001" THEN <<"ximgdock.showImagePreview">> ELSE <<>>

\* the registerCommand calls of activate, 141-220, in their order
ActivateRegistrations ==
    <<"ximgdock.showPreview", "ximgdock.selectImageFolder", "ximgdock.refreshImages",
      "ximgdock.insertImage", "ximgdock.changeSortOrder", "ximgdock.clearThumbnailCache",
      "ximgdock.showImageGallery", "ximgdock.showImagePreview">>

\* vscode.commands.registerCommand(id, handler)
registerCommand(c, id) ==
    IF id \in c.registered
    THEN [c EXCEPT !.calls = Append(@, id), !.activate = "failed"]
    ELSE [c EXCEPT !.calls = Append(@, id), !.registered = @ \cup {id}]

RECURSIVE RegisterAll(_, _)
\* the registerCommand calls for ids, up to the first that throws
RegisterAll(c, ids) ==
    IF ids = <<>> THEN [c EXCEPT !.activate = "done"]
    ELSE LET r == registerCommand(c, Head(ids))
         IN  IF r.activate = "failed" THEN r ELSE RegisterAll(r, Tail(ids))

\* the messages of the gallery webview and the command executed for each,
\* part_002 184-214, 253-268
GalleryMessages == {"insertImage", "showPreview", "selectFolder", "refresh", "changeSort"}

CommandOf(message) ==
    IF message = "insertImage" THEN "ximgdock.insertImage"
    ELSE IF message = "showPreview" THEN "ximgdock.showImagePreview"
    ELSE IF message = "selectFolder" THEN "ximgdock.selectImageFolder"
    ELSE IF message = "refresh" THEN "ximgdock.refresh"
    ELSE "ximgdock.changeSortOrder"

\* the handlers of the commands that change the ImageDockProvider, extension.ts
\* 146-185; pick: what the user chooses in the dialog (NoFolder: nothing)
RunCommand(dp, id, pick) ==
    IF id = "ximgdock.selectImageFolder"
    THEN IF pick \in Folders THEN setImageFolder(dp, pick) ELSE dp
    ELSE IF id = "ximgdock.refreshImages" THEN refresh(dp)
    ELSE IF id = "ximgdock.changeSortOrder"
    THEN IF pick \in SortOrders THEN setSortOrder(dp, pick) ELSE dp
    ELSE dp

\* vscode.commands.executeCommand(id)
executeCommand(c, dp, id, pick) ==
    IF id \in c.registered
    THEN [commands |-> [c EXCEPT !.executed = [id |-> id, found |-> TRUE]],
          provider |-> RunCommand(dp, id, pick)]
    ELSE [commands |-> [c EXCEPT !.executed = [id |-> id, found |-> FALSE]],
          provider |-> dp]

InitGallery ==
    /\ InitHost
    /\ InitManagers
    /\ thumbnailManager = NoThumbnailManager
    /\ webviewScript = NoScript
    /\ activeTextEditor = NoEditor
    /\ parser = NoCall
    /\ imageDockProvider = [constructed |-> FALSE]
    /\ \E provider \in Providers :
           commands = [registered |-> {}, calls |-> <<>>, activate |-> "not yet",
                       provider |-> provider, gallery |-> FALSE,
                       executed |-> [id |-> "", found |-> TRUE]]

\* activate(context), 121-220: the ImageDockProvider is constructed (128), then
\* the commands are registered
Activate ==
    /\ commands.activate = "not yet"
    /\ imageDockProvider' = NewImageDockProvider
    /\ commands' = RegisterAll(commands, ConstructorRegistrations(commands.provider)
                                             \o ActivateRegistrations)
    /\ DockOnly

\* the user runs ximgdock.showImageGallery: createWebviewTreeView(), part_002 161-218
ShowImageGallery ==
    /\ commands.activate \in {"done", "failed"}
    /\ ~commands.gallery
    /\ LET r == executeCommand(commands, imageDockProvider, "ximgdock.showImageGallery",
                               NoFolder)
       IN  /\ r.commands.executed.found
           /\ commands' = [r.commands EXCEPT !.gallery = TRUE]
           /\ imageDockProvider' = r.provider
    /\ DockOnly

\* the gallery webview posts a message: the onDidReceiveMessage listener,
\* part_002 184-214
GalleryMessage(message, pick) ==
    /\ commands.gallery
    /\ Cardinality(imageDockProvider.runs) < MaxRuns
    /\ LET r == executeCommand(commands, imageDockProvider, CommandOf(message), pick)
       IN  /\ commands' = r.commands
           /\ imageDockProvider' = r.provider
    /\ DockOnly

NextGallery ==
    \/ Activate
    \/ ShowImageGallery
    \/ \E message \in GalleryMessages, pick \in Folders \cup SortOrders \cup {NoFolder} :
           GalleryMessage(message, pick)
    \/ ReadDirectoryDone
    \/ StatDone

SpecGallery == InitGallery /\ [][NextGallery]_vars

\* C39: the command protocol is closed.  Once activate has run, every command
\* that the listener of the gallery webview executes has been registered exactly
\* once.
C39_CommandProtocolClosed ==
    commands.activate \in {"done", "failed"} =>
        \A message \in GalleryMessages :
            Cardinality({k \in 1..Len(commands.calls) :
                            commands.calls[k] = CommandOf(message)}) = 1

=============================================================================
